---- MODULE Spec2Model ----
(***************************************************************************)
(* Text2Flat: the column detector (src/text.py, class TextParser) and the  *)
(* flat-file serializer (src/flat.py, class FlatWriter).                   *)
(*                                                                         *)
(* Python strings are modelled as sequences of one-character strings, so   *)
(* that strip(), lower(), re.split() and the regular expressions of the    *)
(* source are computed rather than assumed.  An ordered dict is a sequence *)
(* of <<key, value>> pairs.  Python's None is None where a label or a file *)
(* name is expected, NoneStr where a string of characters is expected and  *)
(* NoneIndex where a column index is expected; a function that can raise   *)
(* is modelled by its value together with a predicate saying that it       *)
(* raises.                                                                 *)
(* A value that a method computes once and uses several times is bound     *)
(* once, as an operator argument or as x in "\E x \in {e} : ...".           *)
(***************************************************************************)
EXTENDS Integers, Sequences, FiniteSets, TLC

None == "None"
\* None as a string of characters: its element is not a character
NoneStr == <<None>>
\* None as a column index: columns count from 0 and -1 is a value of the source
NoneIndex == -2
\* the exceptions the source raises
ValueError == "ValueError"
NameError == "NameError"

(***************************************************************************)
(* Characters and the string methods the source uses.                      *)
(***************************************************************************)
LowerSeq == <<"a","b","c","d","e","f","g","h","i","j","k","l","m","n","o","p","q","r","s","t","u","v","w","x","y","z">>
UpperSeq == <<"A","B","C","D","E","F","G","H","I","J","K","L","M","N","O","P","Q","R","S","T","U","V","W","X","Y","Z">>
Digit == {"0","1","2","3","4","5","6","7","8","9"}
LowerCh == {LowerSeq[i] : i \in DOMAIN LowerSeq}
UpperCh == {UpperSeq[i] : i \in DOMAIN UpperSeq}
Letter == LowerCh \cup UpperCh
\* \w of the re module over the characters used here
Word == Letter \cup Digit \cup {"_"}
\* \s of the re module, and the characters str.strip() removes
Space == {" ", "\t", "\n", "\r"}

\* str.lower() on one character
LowerChar(c) ==
    IF c \in UpperCh THEN LowerSeq[CHOOSE i \in DOMAIN UpperSeq : UpperSeq[i] = c] ELSE c

\* str.lower()
Lower(s) == [i \in DOMAIN s |-> LowerChar(s[i])]

\* str.strip(): drop leading and trailing whitespace
Strip(s) ==
    LET keep == {i \in DOMAIN s : s[i] \notin Space}
    IN  IF keep = {} THEN <<>>
        ELSE LET lo == CHOOSE i \in keep : \A j \in keep : i <= j
                 hi == CHOOSE i \in keep : \A j \in keep : j <= i
             IN  SubSeq(s, lo, hi)

(***************************************************************************)
(* Regular expressions.  A pattern is a syntax tree; Ends(r, s, P) is the  *)
(* set of positions at which a match of r can end when it starts at one of *)
(* the positions P of s (positions count consumed characters).  re.match   *)
(* succeeds iff some way of matching exists, which is what backtracking    *)
(* decides, so ReMatch(r, s) is Ends(r, s, {0}) being non-empty.           *)
(***************************************************************************)
Cls(S) == [t |-> "cls", cs |-> S]
Lit(str) == [t |-> "lit", s |-> str]
Cat(list) == [t |-> "cat", rs |-> list]
Alt(list) == [t |-> "alt", rs |-> list]
Opt(x) == [t |-> "opt", r |-> x]
Plus(x) == [t |-> "plus", r |-> x]
Rep(x, m, n) == [t |-> "rep", r |-> x, lo |-> m, hi |-> n]
\* the anchor $: the end of the string, or just before a final newline
Eos == [t |-> "eos"]

RECURSIVE Ends(_, _, _)
Ends(r, s, P) ==
    CASE r.t = "cls" -> {p + 1 : p \in {q \in P : q < Len(s) /\ s[q + 1] \in r.cs}}
      [] r.t = "lit" -> {p + Len(r.s) : p \in {q \in P : /\ q + Len(r.s) <= Len(s)
                                                         /\ SubSeq(s, q + 1, q + Len(r.s)) = r.s}}
      [] r.t = "cat" -> IF r.rs = <<>> THEN P
                        ELSE Ends(Cat(Tail(r.rs)), s, Ends(Head(r.rs), s, P))
      [] r.t = "alt" -> UNION {Ends(r.rs[k], s, P) : k \in DOMAIN r.rs}
      [] r.t = "opt" -> P \cup Ends(r.r, s, P)
      [] r.t = "plus" -> LET E == Ends(r.r, s, P)
                         IN  IF E = {} THEN {} ELSE E \cup Ends(r, s, E \ P)
      [] r.t = "rep" -> IF r.hi = 0 THEN P
                        ELSE IF r.lo > 0
                             THEN Ends(Rep(r.r, r.lo - 1, r.hi - 1), s, Ends(r.r, s, P))
                             ELSE P \cup Ends(Rep(r.r, 0, r.hi - 1), s, Ends(r.r, s, P))
      [] r.t = "eos" -> {p \in P : \/ p = Len(s)
                                   \/ (p = Len(s) - 1 /\ s[Len(s)] = "\n")}

\* re.match(pattern, s) is not None; every pattern of the source starts with ^
ReMatch(r, s) == Ends(r, s, {0}) # {}

(***************************************************************************)
(* The patterns of TextParser.known_strategies (text.py 93-105).           *)
(***************************************************************************)
\* r'^\d{6,15}$'
re_userId == Cat(<<Rep(Cls(Digit), 6, 15), Eos>>)

\* r'^[a-zA-Z]\d[a-zA-Z](\s{1,})?\d[a-zA-Z]\d$'
re_postalcode ==
    Cat(<<Cls(Letter), Cls(Digit), Cls(Letter), Opt(Plus(Cls(Space))),
          Cls(Digit), Cls(Letter), Cls(Digit), Eos>>)

\* r'^(\w|\.|\_|\-)+[@](\w|\_|\-|\.)+[.]\w{2,3}$'
re_email ==
    Cat(<<Plus(Alt(<<Cls(Word), Lit(<<".">>), Lit(<<"_">>), Lit(<<"-">>)>>)),
          Cls({"@"}),
          Plus(Alt(<<Cls(Word), Lit(<<"_">>), Lit(<<"-">>), Lit(<<".">>)>>)),
          Cls({"."}), Rep(Cls(Word), 2, 3), Eos>>)

\* r'^(\+)?(\()?\d{3}(-| |\)(\s|-)?)?\d{3}(-| )?\d{4}$'
re_phone ==
    Cat(<<Opt(Lit(<<"+">>)), Opt(Lit(<<"(">>)), Rep(Cls(Digit), 3, 3),
          Opt(Alt(<<Lit(<<"-">>), Lit(<<" ">>),
                    Cat(<<Lit(<<")">>), Opt(Alt(<<Cls(Space), Lit(<<"-">>)>>))>>)>>)),
          Rep(Cls(Digit), 3, 3), Opt(Alt(<<Lit(<<"-">>), Lit(<<" ">>)>>)),
          Rep(Cls(Digit), 4, 4), Eos>>)

\* r'^(CA|Canada)'
re_country == Alt(<<Lit(<<"C","A">>), Lit(<<"C","a","n","a","d","a">>)>>)

\* r'^(NL|PE|NS|NB|QC|ON|MB|SK|AB|BC|YT|NT|NU)'
re_province ==
    Alt(<<Lit(<<"N","L">>), Lit(<<"P","E">>), Lit(<<"N","S">>), Lit(<<"N","B">>),
          Lit(<<"Q","C">>), Lit(<<"O","N">>), Lit(<<"M","B">>), Lit(<<"S","K">>),
          Lit(<<"A","B">>), Lit(<<"B","C">>), Lit(<<"Y","T">>), Lit(<<"N","T">>),
          Lit(<<"N","U">>)>>)

\* r'^((M|m)(ale)?|(F|f)(emale)?|(P|p)refer\s+not\s+to\s+say|(N|n)(ot\s+listed)?|(X|x))$'
re_gender ==
    Cat(<<Alt(<<Cat(<<Cls({"M","m"}), Opt(Lit(<<"a","l","e">>))>>),
                Cat(<<Cls({"F","f"}), Opt(Lit(<<"e","m","a","l","e">>))>>),
                Cat(<<Cls({"P","p"}), Lit(<<"r","e","f","e","r">>), Plus(Cls(Space)),
                      Lit(<<"n","o","t">>), Plus(Cls(Space)), Lit(<<"t","o">>),
                      Plus(Cls(Space)), Lit(<<"s","a","y">>)>>),
                Cat(<<Cls({"N","n"}),
                      Opt(Cat(<<Lit(<<"o","t">>), Plus(Cls(Space)),
                                Lit(<<"l","i","s","t","e","d">>)>>))>>),
                Cls({"X","x"})>>),
          Eos>>)

(***************************************************************************)
(* Dates (text.py 113-115 and 310-455).  A calendar date is compared       *)
(* through its proleptic Gregorian ordinal, as datetime does.  The         *)
(* evaluation time now is [ord, tod]: the ordinal of today's date and      *)
(* tod = 0 at midnight exactly, 1 at any later time of day; an instant is  *)
(* measured in half days, 2 * ord + tod, so that datetime's comparison of  *)
(* a midnight with now plus or minus whole days is exact.                  *)
(***************************************************************************)
Sep == Cls({"-", "/"})
re_mm == Alt(<<Cat(<<Lit(<<"0">>), Cls(Digit \ {"0"})>>), Cat(<<Lit(<<"1">>), Cls({"0","1","2"})>>)>>)
re_dd == Alt(<<Cat(<<Lit(<<"0">>), Cls(Digit \ {"0"})>>), Cat(<<Cls({"1","2"}), Cls(Digit)>>),
               Cat(<<Lit(<<"3">>), Cls({"0","1"})>>)>>)
re_yyyy == Cat(<<Alt(<<Lit(<<"1","9">>), Lit(<<"2","0">>)>>), Cls(Digit), Cls(Digit)>>)
\* r'^(0[1-9]|1[012])[-/]?(0[1-9]|[12][0-9]|3[01])[-/]?(19|20)\d\d'
reg_mmddyyyy == Cat(<<re_mm, Opt(Sep), re_dd, Opt(Sep), re_yyyy>>)
\* r'^(0[1-9]|[12][0-9]|3[01])[-/]?(0[1-9]|1[012])[-/]?(19|20)\d\d'
reg_ddmmyyyy == Cat(<<re_dd, Opt(Sep), re_mm, Opt(Sep), re_yyyy>>)
\* r'^(19|20)\d\d[-/]?(0[1-9]|1[012])[-/]?(0[1-9]|[12][0-9]|3[01])'
reg_yyyymmdd == Cat(<<re_yyyy, Opt(Sep), re_mm, Opt(Sep), re_dd>>)

DigitSeq == <<"0","1","2","3","4","5","6","7","8","9">>
DigitVal(c) == (CHOOSE i \in DOMAIN DigitSeq : DigitSeq[i] = c) - 1
DigitChar(n) == DigitSeq[n + 1]

RECURSIVE ToInt(_)
\* int() of a string of digits
ToInt(s) == IF s = <<>> THEN 0 ELSE 10 * ToInt(SubSeq(s, 1, Len(s) - 1)) + DigitVal(s[Len(s)])

IsLeap(y) == (y % 4 = 0 /\ y % 100 # 0) \/ y % 400 = 0
DaysInMonth(y, m) ==
    IF m = 2 THEN (IF IsLeap(y) THEN 29 ELSE 28)
    ELSE IF m \in {4, 6, 9, 11} THEN 30 ELSE 31

RECURSIVE DaysBeforeMonth(_, _)
DaysBeforeMonth(y, m) == IF m = 1 THEN 0 ELSE DaysBeforeMonth(y, m - 1) + DaysInMonth(y, m - 1)

\* date(y, m, d).toordinal()
Ordinal(y, m, d) ==
    365 * (y - 1) + ((y - 1) \div 4) - ((y - 1) \div 100) + ((y - 1) \div 400)
      + DaysBeforeMonth(y, m) + d

\* s with every occurrence of the characters of cs removed (str.replace(ch, ''))
Remove(s, cs) == SelectSeq(s, LAMBDA c : c \notin cs)

\* s[:n]
Take(s, n) == SubSeq(s, 1, IF Len(s) < n THEN Len(s) ELSE n)

\* datetime.strptime(s, fmt).date() for the three formats "%m%d%Y", "%d%m%Y",
\* "%Y%m%d" (order "mdY", "dmY", "Ymd"): valid is FALSE for ValueError.
\* Each directive takes its digits greedily and the whole string must be used.
strptime(s, order) ==
    IF Len(s) # 8 \/ \E i \in DOMAIN s : s[i] \notin Digit
    THEN [valid |-> FALSE, y |-> 0, m |-> 0, d |-> 0]
    ELSE LET y == ToInt(IF order = "Ymd" THEN SubSeq(s, 1, 4) ELSE SubSeq(s, 5, 8))
             m == ToInt(CASE order = "mdY" -> SubSeq(s, 1, 2)
                          [] order = "dmY" -> SubSeq(s, 3, 4)
                          [] order = "Ymd" -> SubSeq(s, 5, 6))
             d == ToInt(CASE order = "mdY" -> SubSeq(s, 3, 4)
                          [] order = "dmY" -> SubSeq(s, 1, 2)
                          [] order = "Ymd" -> SubSeq(s, 7, 8))
         IN  [valid |-> y >= 1 /\ m \in 1..12 /\ d >= 1 /\ d <= DaysInMonth(y, m),
              y |-> y, m |-> m, d |-> d]

\* ''.join(c for c in str(date) if c not in '-')[0:8]
yyyymmdd(dt) ==
    <<DigitChar(dt.y \div 1000), DigitChar((dt.y \div 100) % 10), DigitChar((dt.y \div 10) % 10),
      DigitChar(dt.y % 10), DigitChar(dt.m \div 10), DigitChar(dt.m % 10),
      DigitChar(dt.d \div 10), DigitChar(dt.d % 10)>>

NEVER == <<"N","E","V","E","R">>

\* dateOrder without the day-month-year pattern
dateOrder_nodmY(test_date) ==
    IF ReMatch(reg_mmddyyyy, test_date) THEN "mdY"
    ELSE IF ReMatch(reg_yyyymmdd, test_date) THEN "Ymd"
    ELSE None

\* the first of the three patterns that matches (text.py 437-451), or None
dateOrder(test_date) ==
    IF ReMatch(reg_mmddyyyy, test_date) THEN "mdY"
    ELSE IF ReMatch(reg_ddmmyyyy, test_date) THEN "dmY"
    ELSE IF ReMatch(reg_yyyymmdd, test_date) THEN "Ymd"
    ELSE None

\* text.py 454-455, or the bare return after ValueError
formatDate(new_date) == IF ~new_date.valid THEN NoneStr ELSE yyyymmdd(new_date)

\* text.py 437-455 for the trimmed string and the pattern that matched
parseDate(stripped, order) ==
    IF order = None THEN NoneStr ELSE formatDate(strptime(stripped, order))

\* TextParser.getDate: the 8-digit date, NEVER, or NoneStr
getDate(some_date) ==
    IF some_date = NEVER THEN NEVER
    ELSE parseDate(Take(Remove(some_date, {"/", "-"}), 8), dateOrder(some_date))

\* isExpiry and isBirthDate raise ValueError when strptime rejects the string
\* that getDate returned (text.py 339 and 372)
roleTestRaises(some_date) ==
    \E test_date \in {getDate(some_date)} :
        test_date # NoneStr /\ ~strptime(test_date, "Ymd").valid

\* isExpiry comparing with now instead of tomorrow
isExpiry_afterNow(some_date, nw) ==
    \E test_date \in {getDate(some_date)} :
        \E possible_expiry \in {strptime(test_date, "Ymd")} :
            /\ test_date # NoneStr
            /\ possible_expiry.valid
            /\ 2 * Ordinal(possible_expiry.y, possible_expiry.m, possible_expiry.d)
                 > 2 * nw.ord + nw.tod

\* TextParser.isExpiry, where it does not raise
isExpiry(some_date, nw) ==
    \E test_date \in {getDate(some_date)} :
        \E possible_expiry \in {strptime(test_date, "Ymd")} :
            /\ test_date # NoneStr
            /\ possible_expiry.valid
            /\ 2 * Ordinal(possible_expiry.y, possible_expiry.m, possible_expiry.d)
                 > 2 * (nw.ord + 1) + nw.tod

\* TextParser.isBirthDate, where it does not raise
isBirthDate(some_date, nw) ==
    \E test_date \in {getDate(some_date)} :
        \E age \in {strptime(test_date, "Ymd")} :
            LET two_years == 2 * 365
                one_hundred_years == 100 * 365
            IN  /\ test_date # NoneStr
                /\ age.valid
                /\ 2 * Ordinal(age.y, age.m, age.d) < 2 * (nw.ord - two_years) + nw.tod
                /\ 2 * Ordinal(age.y, age.m, age.d) > 2 * (nw.ord - one_hundred_years) + nw.tod

(***************************************************************************)
(* Ordered dictionaries: a dict is a sequence of <<key, value>> pairs in   *)
(* insertion order.                                                        *)
(***************************************************************************)
Keys(t) == [i \in DOMAIN t |-> t[i][1]]
KeySet(t) == {t[i][1] : i \in DOMAIN t}
Values(t) == {t[i][2] : i \in DOMAIN t}
\* dict.get(k)
Get(t, k) ==
    IF k \in KeySet(t) THEN t[CHOOSE i \in DOMAIN t : t[i][1] = k][2] ELSE None
\* the dict after dict.pop(k)
Pop(t, k) == SelectSeq(t, LAMBDA e : e[1] # k)
\* the dict after dict[k] = v: an existing key keeps its place, a new key goes last
Put(t, k, v) ==
    IF k \in KeySet(t) THEN [i \in DOMAIN t |-> IF t[i][1] = k THEN <<k, v>> ELSE t[i]]
    ELSE Append(t, <<k, v>>)

(***************************************************************************)
(* TextParser: the tables set up by __init__ (text.py 74-111, 130).        *)
(***************************************************************************)
ParserTagMap0 ==
    << <<"userId", "userId">>, <<"branch", "branch">>, <<"profile", "profile">>,
       <<"postalcode", "postalcode">>, <<"email", "email">>, <<"phone", "phone">>,
       <<"birthday", "birthday">>, <<"expiry", "expiry">>, <<"province", "province">>,
       <<"country", "country">>, <<"city", "city">>, <<"gender", "gender">>,
       <<"street", "street">>, <<"firstName", "firstName">>, <<"lastName", "lastName">> >>

preferredSearchOrder ==
    <<"userId", "branch", "profile", "postalcode", "email", "phone", "birthday",
      "expiry", "street", "province", "gender", "city", "lastName", "firstName">>

corpusNames == <<"street", "firstName", "lastName", "city", "branch", "profile">>

PatternFields == {"userId", "postalcode", "email", "phone", "country", "province", "gender"}
DateFields == {"birthday", "expiry"}

\* what known_strategies holds for a field: a compiled pattern, or one of the
\* callables _corpusCompare_ and getRequestedDate (text.py 244)
strategyKind(field) ==
    IF field \in PatternFields THEN "pattern"
    ELSE IF field \in DateFields THEN "date"
    ELSE "corpus"

\* known_strategies: the compiled pattern of a pattern field
known_strategies(field) ==
    [kind |-> strategyKind(field),
     re |-> CASE field = "userId" -> re_userId
              [] field = "postalcode" -> re_postalcode
              [] field = "email" -> re_email
              [] field = "phone" -> re_phone
              [] field = "country" -> re_country
              [] field = "province" -> re_province
              [] field = "gender" -> re_gender
              [] OTHER -> None]

\* TextParser.renameField on the table t
renameField(t, oldName, newName) ==
    IF oldName # "" \/ newName # ""
    THEN IF oldName \in KeySet(t) THEN Put(Pop(t, oldName), newName, Get(t, oldName)) ELSE t
    ELSE t

\* configs.get(key) is not None: configs.keys holds the keys the configuration
\* document supplies, and isNone says that no document was given at all
Has(configs, key) == ~configs.isNone /\ key \in configs.keys

RECURSIVE rebindFieldNames(_, _)
\* TextParser._rebindFieldNames_: renameField for each item of 'fieldBindings'
\* (no item when the key is absent)
rebindFieldNames(t, fieldNames) ==
    IF fieldNames = <<>> THEN t
    ELSE rebindFieldNames(renameField(t, fieldNames[1][1], fieldNames[1][2]), Tail(fieldNames))

\* TextParser._setDelimiter_
setDelimiter(configs) == IF Has(configs, "delimiter") THEN configs.delimiter ELSE <<",">>

\* TextParser._setThreshold_: the threshold is a percentage
setThreshold(configs) == IF Has(configs, "threshold") THEN configs.threshold ELSE 90

\* the value self.optionalList has when the requested fields are loaded
\* (text.py 121 and 215-218): the configured list is read but never stored
loadOptionalList(configs) == IF ~Has(configs, "optional") THEN <<>> ELSE <<>>

\* TextParser._loadRequestedFields_ (text.py 225-233): the ordered dict
\* requested_fields, canonical field -> required?
loadRequestedFields(t, requiredList, optionalList) ==
    LET isNamed(list, orderedField) ==
            \E i \in DOMAIN list : Get(t, list[i]) # None /\ orderedField = Get(t, list[i])
        entry(orderedField) ==
            IF isNamed(requiredList, orderedField) THEN << <<orderedField, TRUE>> >>
            ELSE IF isNamed(optionalList, orderedField) THEN << <<orderedField, FALSE>> >>
            ELSE <<>>
        RECURSIVE build(_)
        build(i) == IF i > Len(preferredSearchOrder) THEN <<>>
                    ELSE entry(preferredSearchOrder[i]) \o build(i + 1)
    IN  build(1)

\* TextParser._loadCorpora_ (text.py 176-179): corpus name -> file name, for
\* the labels of the 'corpus' section bound to a corpus name; the last such
\* label in binding order wins
loadCorpusDict(t, corpusDict) ==
    LET hits(corpusName) == {i \in DOMAIN t : Get(corpusDict, t[i][1]) # None /\ t[i][2] = corpusName}
        last(S) == CHOOSE i \in S : \A j \in S : j <= i
        named == {corpusNames[k] : k \in {j \in DOMAIN corpusNames : hits(corpusNames[j]) # {}}}
    IN  [c \in named |-> Get(corpusDict, t[last(hits(c))][1])]

(***************************************************************************)
(* Inputs: the documented sample row, the cells records are built from,    *)
(* the corpus files on disk and the evaluation times.                      *)
(***************************************************************************)
MaxCols == 2
MaxRecords == 2

SampleRow ==
    << <<"1","2","/","3","1","/","2","0","2","3">>,
       <<" ","E","P","L","S","T","R">>,
       <<" ","E","P","L","_","V","I","S","I","T","R">>,
       <<" ","1","2","3","4","-","5","6","7"," ","A","v","e">>,
       <<"E","d","m","o","n","t","o","n">>,
       <<" ","A","B",".">>,
       <<" ","T","6","G"," ","0","G","4"," ">>,
       <<"1","9","9","9","-","0","8","-","2","2">>,
       <<" ","2","1","2","2","1","0","1","2","3","4","5","6","7","8">>,
       <<"B","i","s","l","a","n","d","-","J","o","n","e","s">>,
       <<"e","x","a","m","p","l","e","@","c","o","m","p","a","n","y","1",".","c","o","m">>,
       <<"H","a","r","o","l","d">>,
       <<"C","u","s","t","o","m","e","r"," ","n","o","t","e">>,
       <<"(","7","8","0",")","-","5","5","5","-","1","2","1","2">>,
       <<"X">> >>

\* Harold (a first and a last name), a postal code with surrounding blanks,
\* a birth date
Cells == {SampleRow[12], SampleRow[7], SampleRow[8]}

\* a record whose first column is a number of eight digits that is also a
\* date of birth: 19990822,Harold
DatedRow == << <<"1","9","9","9","0","8","2","2">>, <<"H","a","r","o","l","d">> >>

Records == {SampleRow, DatedRow} \cup UNION {[1..n -> Cells] : n \in 1..MaxCols}

\* the corpus files on disk: file name -> lines (without the line terminator)
Files ==
    [f \in {"street.txt", "fname.txt", "lname.txt", "alberta_towns.txt",
            "epl_branches.txt", "user_profiles.txt"} |->
        CASE f = "street.txt" -> {<<"A","v","e">>, <<"S","t","r","e","e","t">>}
          [] f = "fname.txt" -> {<<"H","a","r","o","l","d">>}
          [] f = "lname.txt" -> {<<"B","i","s","l","a","n","d">>, <<"H","A","R","O","L","D">>}
          [] f = "alberta_towns.txt" -> {<<"E","d","m","o","n","t","o","n">>}
          [] f = "epl_branches.txt" -> {<<"E","P","L","S","T","R">>}
          [] f = "user_profiles.txt" -> {<<"E","P","L","_","V","I","S","I","T","R">>}]

\* the evaluation time: the afternoon of 2022-11-06
Nows == {[ord |-> Ordinal(2022, 11, 6), tod |-> 1]}

\* every cell a record can hold
AllCells == Cells \cup {SampleRow[i] : i \in DOMAIN SampleRow} \cup {DatedRow[1]}

(***************************************************************************)
(* The detection strategies (text.py 243-306).                             *)
(***************************************************************************)
\* the smallest element of a non-empty set of integers
Min(S) == CHOOSE i \in S : \A j \in S : i <= j

\* the words of re.split(r'\W+', d) without the empty string: the maximal
\* runs of word characters
Tokens(d) ==
    LET starts == {i \in DOMAIN d : d[i] \in Word /\ (i = 1 \/ d[i - 1] \notin Word)}
        stop(i) == Min({j \in i..Len(d) : j = Len(d) \/ d[j + 1] \notin Word})
    IN  {SubSeq(d, i, stop(i)) : i \in starts}

\* the match without d.strip()
cellMatches_unstripped(field, d) == ReMatch(known_strategies(field).re, d)

\* re.match(strategy, d.strip()) of text.py 248
cellMatches(field, d) == ReMatch(known_strategies(field).re, Strip(d))

\* set(re.split(r'\W+', d.lower())) without '' (text.py 268-271)
cellWords(d) == Tokens(Lower(d))

\* the corpus set of text.py 260-264: the lines of the file in lower case
corpusSet(lines) == {Lower(l) : l \in lines}

\* the role test getRequestedDate applies to a column (text.py 300-305)
roleTest(d, field, nw) ==
    IF field = "birthday" THEN isBirthDate(d, nw)
    ELSE IF field = "expiry" THEN isExpiry(d, nw)
    ELSE FALSE

\* The four functions above, tabulated once over the cells, files and times
\* of the inputs.
MatchesOf == [d \in AllCells |-> {f \in PatternFields : cellMatches(f, d)}]
WordsOf == [d \in AllCells |-> cellWords(d)]
CorpusSetOf == [f \in DOMAIN Files |-> corpusSet(Files[f])]
RoleOf == [nw \in Nows |-> [d \in AllCells |-> {f \in DateFields : roleTest(d, f, nw)}]]
RaisesOf == {d \in AllCells : roleTestRaises(d)}

\* _corpusCompare_ that takes a claimed column too
corpusCompare_claimed(data, file, collected) ==
    LET found == {idx \in DOMAIN data : CorpusSetOf[file] \cap WordsOf[data[idx]] # {}}
    IN  IF found = {} THEN NoneIndex ELSE Min(found) - 1

\* TextParser._corpusCompare_: file is corpus_dict[field], collected the dict
\* fields_collected at the moment of the call
corpusCompare(data, file, collected) ==
    LET found == {idx \in DOMAIN data :
                    /\ CorpusSetOf[file] \cap WordsOf[data[idx]] # {}
                    /\ (idx - 1) \notin {collected[f] : f \in DOMAIN collected}}
    IN  IF found = {} THEN NoneIndex ELSE Min(found) - 1

\* TextParser.getRequestedDate raises when the role test of a column raises
\* before any column is accepted
getRequestedDateRaises(data, field, nw) ==
    \E idx \in DOMAIN data :
        /\ field \in DateFields
        /\ data[idx] \in RaisesOf
        /\ \A j \in 1..(idx - 1) : field \notin RoleOf[nw][data[j]]

\* TextParser.getRequestedDate, where it does not raise: the index or -1
getRequestedDate(data, field, nw) ==
    LET found == {idx \in DOMAIN data : field \in RoleOf[nw][data[idx]]}
    IN  IF found = {} THEN -1 ELSE Min(found) - 1

\* the pattern branch of TextParser._findDataIndex_ (text.py 247-249)
patternIndex(field, data) ==
    LET found == {position \in DOMAIN data : field \in MatchesOf[data[position]]}
    IN  IF found = {} THEN NoneIndex ELSE Min(found) - 1

\* TextParser._findDataIndex_ raises
findDataIndexRaises(field, data, nw) ==
    strategyKind(field) = "date" /\ getRequestedDateRaises(data, field, nw)

\* TextParser._findDataIndex_, where it does not raise
findDataIndex(field, data, collected, corpus_dict, nw) ==
    CASE strategyKind(field) = "pattern" -> patternIndex(field, data)
      [] strategyKind(field) = "corpus" -> corpusCompare(data, corpus_dict[field], collected)
      [] strategyKind(field) = "date" -> getRequestedDate(data, field, nw)

\* dict[k] = v on a dict kept as a function
Assign(d, k, v) == [x \in (DOMAIN d) \cup {k} |-> IF x = k THEN v ELSE d[x]]

\* text.py 158-160: an index other than None is assigned and counted
recordIndex(st, search_field, whichColumnIndex) ==
    IF whichColumnIndex = NoneIndex THEN st
    ELSE [st EXCEPT !.collected = Assign(st.collected, search_field, whichColumnIndex),
                    !.histogram = Assign(st.histogram, search_field,
                                         (IF search_field \in DOMAIN st.histogram
                                          THEN st.histogram[search_field] ELSE 0) + 1)]

RECURSIVE findRequestedFrom(_, _, _, _, _, _)
\* TextParser._findRequestedData_ from the i-th requested field on; st holds
\* fields_collected, fields_histogram and the exception raised, if any
findRequestedFrom(i, requested, cols, st, corpus_dict, nw) ==
    IF i > Len(requested) THEN st
    ELSE IF findDataIndexRaises(requested[i][1], cols, nw) THEN [st EXCEPT !.exc = ValueError]
    ELSE findRequestedFrom(i + 1, requested, cols,
             recordIndex(st, requested[i][1],
                         findDataIndex(requested[i][1], cols, st.collected, corpus_dict, nw)),
             corpus_dict, nw)

findRequestedData(requested, cols, collected, histogram, corpus_dict, nw) ==
    findRequestedFrom(1, requested, cols,
                      [collected |-> collected, histogram |-> histogram, exc |-> None],
                      corpus_dict, nw)

\* isWellFormed looking for missing optional fields instead of required ones
isWellFormed_optional(collected, histogram, requested, total, threshold) ==
    LET missing_fields == {i \in DOMAIN requested :
                              requested[i][1] \notin DOMAIN collected /\ requested[i][2] = FALSE}
        isRequired(field) == \E i \in DOMAIN requested : requested[i] = <<field, TRUE>>
        counted == {field \in DOMAIN histogram : isRequired(field)}
        errors == {field \in counted : histogram[field] * 100 < threshold * total}
    IN  IF Cardinality(DOMAIN collected) < Len(requested) /\ missing_fields # {} THEN FALSE
        ELSE IF counted # {} /\ total < 1 THEN FALSE
        ELSE errors = {}

\* isWellFormed with an exclusive boundary: frequency <= threshold is an error
isWellFormed_exclusive(collected, histogram, requested, total, threshold) ==
    LET missing_fields == {i \in DOMAIN requested :
                              requested[i][1] \notin DOMAIN collected /\ requested[i][2] = TRUE}
        isRequired(field) == \E i \in DOMAIN requested : requested[i] = <<field, TRUE>>
        counted == {field \in DOMAIN histogram : isRequired(field)}
        errors == {field \in counted : histogram[field] * 100 <= threshold * total}
    IN  IF Cardinality(DOMAIN collected) < Len(requested) /\ missing_fields # {} THEN FALSE
        ELSE IF counted # {} /\ total < 1 THEN FALSE
        ELSE errors = {}

\* TextParser.isWellFormed (text.py 505-531).  count / total_records and
\* success_threshold / 100 are compared exactly: both are quotients of small
\* integers, which float division orders as the rationals are ordered.
isWellFormed(collected, histogram, requested, total, threshold) ==
    LET missing_fields == {i \in DOMAIN requested :
                              requested[i][1] \notin DOMAIN collected /\ requested[i][2] = TRUE}
        isRequired(field) == \E i \in DOMAIN requested : requested[i] = <<field, TRUE>>
        counted == {field \in DOMAIN histogram : isRequired(field)}
        errors == {field \in counted : histogram[field] * 100 < threshold * total}
    IN  IF Cardinality(DOMAIN collected) < Len(requested) /\ missing_fields # {} THEN FALSE
        ELSE IF counted # {} /\ total < 1 THEN FALSE
        ELSE errors = {}

(***************************************************************************)
(* Inputs: the configurations and the constructor's data argument.         *)
(***************************************************************************)
CorpusSection ==
    << <<"street", "street.txt">>, <<"firstName", "fname.txt">>, <<"lastName", "lname.txt">>,
       <<"city", "alberta_towns.txt">>, <<"branch", "epl_branches.txt">>,
       <<"profile", "user_profiles.txt">> >>

\* a configuration document: keys are the keys it supplies
Config(keys, required, optional, fieldBindings, corpus, threshold) ==
    [isNone |-> FALSE, keys |-> keys, required |-> required, optional |-> optional,
     fieldBindings |-> fieldBindings, corpus |-> corpus, threshold |-> threshold,
     delimiter |-> <<",">>]

\* the configuration of the doctest of TextParser.__init__ (text.py 35-39)
DocConfig ==
    Config({"corpus", "required", "optional"},
           <<"email", "firstName", "lastName", "street", "postalcode", "city", "province",
             "phone", "expiry", "birthday", "userId", "branch", "profile", "speltWrong">>,
           <<"gender", "BOGUS">>, <<>>, CorpusSection, 0)

Configs ==
    { DocConfig,
      Config({"corpus", "required", "optional", "threshold"},
             <<"firstName", "lastName">>, <<"gender">>, <<>>, CorpusSection, 100),
      Config({"corpus", "required"},
             <<"birthday", "postalcode", "firstName">>, <<>>, <<>>, CorpusSection, 0),
      Config({"corpus", "required", "optional", "fieldBindings", "threshold"},
             <<"nom", "country">>, <<"postalcode", "nom">>, << <<"firstName", "nom">> >>,
             << <<"street", "street.txt">>, <<"nom", "fname.txt">>, <<"lastName", "lname.txt">>,
                <<"city", "alberta_towns.txt">>, <<"branch", "epl_branches.txt">>,
                <<"profile", "user_profiles.txt">> >>, 150),
      Config({"corpus", "required"}, <<"postalcode", "email">>, <<>>, <<>>, CorpusSection, 0),
      Config({"corpus", "required"}, <<"userId", "birthday", "firstName">>, <<>>, <<>>,
             CorpusSection, 0),
      \* configurations that construction rejects
      Config({"optional"}, <<>>, <<"gender">>, <<>>, <<>>, 0),
      Config({"corpus", "required", "fieldBindings"},
             <<"nom">>, <<>>, << <<"firstName", "nom">> >>, CorpusSection, 0),
      [Config({}, <<>>, <<>>, <<>>, <<>>, 0) EXCEPT !.isNone = TRUE],
      Config({}, <<>>, <<>>, <<>>, <<>>, 0),
      Config({"corpus"}, <<>>, <<>>, <<>>, CorpusSection, 0),
      Config({"required"}, <<"firstName">>, <<>>, <<>>, <<>>, 0),
      Config({"corpus", "required"}, <<"firstName">>, <<>>, <<>>,
             << <<"street", "street.txt">>, <<"firstName", "fname.txt">> >>, 0),
      Config({"corpus", "required"}, <<"firstName">>, <<>>, <<>>,
             << <<"street", "missing.txt">>, <<"firstName", "fname.txt">>,
                <<"lastName", "lname.txt">>, <<"city", "alberta_towns.txt">>,
                <<"branch", "epl_branches.txt">>, <<"profile", "user_profiles.txt">> >>, 0) }

RECURSIVE Join(_, _)
\* sep.join(list)
Join(list, sep) ==
    IF list = <<>> THEN <<>>
    ELSE IF Len(list) = 1 THEN list[1]
    ELSE list[1] \o sep \o Join(Tail(list), sep)

RECURSIVE Split(_, _)
\* str.split(sep) for a non-empty separator
Split(str, sep) ==
    LET at == {i \in 1..(Len(str) - Len(sep) + 1) : SubSeq(str, i, i + Len(sep) - 1) = sep}
    IN  IF at = {} THEN <<str>>
        ELSE <<SubSeq(str, 1, Min(at) - 1)>>
               \o Split(SubSeq(str, Min(at) + Len(sep), Len(str)), sep)

\* the data argument of the constructor: a string holding one record, or the
\* name of a file holding one record per line
DataInputs ==
    {[isfile |-> FALSE, text |-> Join(r, <<",">>), lines |-> <<>>] : r \in Records}
      \cup {[isfile |-> TRUE, text |-> <<>>, lines |-> <<>>],
            [isfile |-> TRUE, text |-> <<>>, lines |-> <<Join(SampleRow, <<",">>)>>]}

(***************************************************************************)
(* FlatWriter: the binding table set up by __init__ (flat.py 111-134) and  *)
(* renameCustomerField (flat.py 176-199).                                  *)
(***************************************************************************)
WriterTagMap0 ==
    << <<"userId", "userId">>, <<"profile", "userProfile">>, <<"firstName", "userFirstName">>,
       <<"lastName", "userLastName">>, <<"middleName", "userMiddleName">>,
       <<"birthday", "userBirthDate">>, <<"gender", "userCategory2">>, <<"email", "email">>,
       <<"phone", "phone">>, <<"street", "street">>, <<"city", "citySlashState">>,
       <<"province", "citySlashState">>, <<"country", "country">>,
       <<"postalcode", "postalcode">>, <<"barcode", "userId">>, <<"pin", "userPin">>,
       <<"type", "userProfile">>, <<"expiry", "userPrivExpires">>, <<"branch", "userLibrary">>,
       <<"status", "userStatus">>, <<"careOf", "careSlashOf">>, <<"note", "note">> >>

\* FlatWriter.renameCustomerField: the table afterwards and the value returned
renameCustomerField(t, oldName, newName) ==
    IF oldName = "" \/ newName = "" THEN [tagMap |-> t, ret |-> FALSE]
    ELSE IF oldName \in KeySet(t)
         THEN [tagMap |-> Put(Pop(t, oldName), newName, Get(t, oldName)), ret |-> TRUE]
         ELSE [tagMap |-> t, ret |-> FALSE]

(***************************************************************************)
(* FlatWriter: the tables set up by __init__ (flat.py 25-157).  A customer  *)
(* record is an ordered dict from labels to strings.  A printed line is a  *)
(* record: kind "boundary" for '*** DOCUMENT BOUNDARY ***', "form" for     *)
(* 'FORM=LDUSER', "field" for '.TAG.   |avalue', "begin" and "end" for     *)
(* '.TAGBEGIN.' and '.TAGEND.'.                                            *)
(***************************************************************************)
symphonyTags ==
    << <<"userId", "USER_ID">>, <<"userGroupId", "USER_GROUP_ID">>, <<"userName", "USER_NAME">>,
       <<"userFirstName", "USER_FIRST_NAME">>, <<"userLastName", "USER_LAST_NAME">>,
       <<"userMiddleName", "USER_MIDDLE_NAME">>, <<"userPreferredName", "USER_PREFERRED_NAME">>,
       <<"userNameDspPref", "USER_NAME_DSP_PREF">>, <<"userLibrary", "USER_LIBRARY">>,
       <<"userProfile", "USER_PROFILE">>, <<"userPrefLang", "USER_PREF_LANG">>,
       <<"userPin", "USER_PIN">>, <<"userStatus", "USER_STATUS">>,
       <<"userRoutingFlag", "USER_ROUTING_FLAG">>, <<"userChgHistRule", "USER_CHG_HIST_RULE">>,
       <<"userLastActivity", "USER_LAST_ACTIVITY">>, <<"userPrivGranted", "USER_PRIV_GRANTED">>,
       <<"userPrivExpires", "USER_PRIV_EXPIRES">>, <<"userBirthDate", "USER_BIRTH_DATE">>,
       <<"userCategory1", "USER_CATEGORY1">>, <<"userCategory2", "USER_CATEGORY2">>,
       <<"userCategory3", "USER_CATEGORY3">>, <<"userCategory4", "USER_CATEGORY4">>,
       <<"userCategory5", "USER_CATEGORY5">>, <<"userAccess", "USER_ACCESS">>,
       <<"userEnvironment", "USER_ENVIRONMENT">>, <<"userMailingaddr", "USER_MAILINGADDR">>,
       <<"street", "STREET">>, <<"citySlashState", "CITY/STATE">>, <<"cityProv", "CITYPROV">>,
       <<"citySlashProv", "CITY/PROV">>, <<"postalcode", "POSTALCODE">>, <<"phone", "PHONE">>,
       <<"phone1", "PHONE1">>, <<"email", "EMAIL">>, <<"careSlashOf", "CARE/OF">>,
       <<"notifyVia", "NOTIFY_VIA">>, <<"note", "NOTE">>, <<"retrnmail", "RETRNMAIL">>,
       <<"homephone", "HOMEPHONE">>, <<"userAddr1", "USER_ADDR1_">>,
       <<"userAddr2", "USER_ADDR2_">>, <<"userAddr3", "USER_ADDR3_">>,
       <<"userXinfo", "USER_XINFO_">> >>

\* self._defaults_ (flat.py 97-107)
Defaults0 ==
    << <<"userNameDspPref", <<"0">> >>, <<"userPrefLang", <<"E","N","G","L","I","S","H">> >>,
       <<"userRoutingFlag", <<"Y">> >>,
       <<"userChgHistRule", <<"A","L","L","C","H","A","R","G","E","S">> >>,
       <<"userAccess", <<"P","U","B","L","I","C">> >>,
       <<"userEnvironment", <<"P","U","B","L","I","C">> >>,
       <<"userMailingaddr", <<"1">> >>, <<"notifyVia", <<"P","H","O","N","E">> >>,
       <<"retrnmail", <<"Y","E","S">> >> >>

\* self.mergedFields (flat.py 29)
mergedFields == << <<"citySlashState", <<"city", "province">> >> >>

\* self.blocks (flat.py 145-157): the block dict a customer field is put into
blocks ==
    << <<"postalcode", "addr1">>, <<"phone", "addr1">>, <<"street", "addr1">>,
       <<"city", "addr1">>, <<"citySlashState", "addr1">>, <<"email", "addr1">>,
       <<"careSlashOf", "addr1">>, <<"careOf", "addr1">>, <<"note", "xinfo">>,
       <<"notifyVia", "xinfo">>, <<"retrnmail", "xinfo">> >>

minimumFields == 3

\* flat.py 258-286 for the trimmed string and the pattern that matched: the
\* string returned (NoneStr for None) and whether printError(True, ...) ran
ansiDate(t, fieldName, trimmed, order) ==
    IF order # None
    THEN [date |-> parseDate(trimmed, order), error |-> ~strptime(trimmed, order).valid]
    ELSE IF trimmed = NEVER /\ \E i \in DOMAIN t : t[i] = <<fieldName, "userPrivExpires">>
    THEN [date |-> NEVER, error |-> FALSE]
    ELSE [date |-> NoneStr, error |-> TRUE]

\* FlatWriter.getAnsiDate
getAnsiDate(t, fieldName, testDate) ==
    IF testDate = <<>> THEN [date |-> NoneStr, error |-> FALSE]
    ELSE ansiDate(t, fieldName, Take(Remove(testDate, {"/", "-"}), 8), dateOrder(testDate))

RECURSIVE collectFields(_, _, _)
\* the loop of flat.py 518-523 from the fields still to visit: the customer
\* and the values gathered in mFields
collectFields(customer, fields, purgeFields) ==
    IF fields = <<>> THEN [customer |-> customer, mFields |-> <<>>]
    ELSE IF Head(fields) \in KeySet(customer)
    THEN [collectFields(IF purgeFields THEN Pop(customer, Head(fields)) ELSE customer,
                        Tail(fields), purgeFields)
            EXCEPT !.mFields = <<Get(customer, Head(fields))>> \o @]
    ELSE collectFields(customer, Tail(fields), purgeFields)

\* joinInto that joins the empty values too
joinInto_keepEmpty(collected, targetField, delimiter) ==
    IF collected.mFields = <<>> THEN collected.customer
    ELSE Put(collected.customer, targetField, Join(collected.mFields, delimiter))

\* flat.py 525-527: empty values are dropped, the rest joined into the target
joinInto(collected, targetField, delimiter) ==
    IF SelectSeq(collected.mFields, LAMBDA v : v # <<>>) = <<>> THEN collected.customer
    ELSE Put(collected.customer, targetField,
             Join(SelectSeq(collected.mFields, LAMBDA v : v # <<>>), delimiter))

\* mergeFields that never removes a merged field
mergeFields_keep(customer, targetField, fields, delimiter, purgeFields) ==
    joinInto(collectFields(customer, fields, FALSE), targetField, delimiter)

\* FlatWriter.mergeFields: the customer dict afterwards
mergeFields(customer, targetField, fields, delimiter, purgeFields) ==
    joinInto(collectFields(customer, fields, purgeFields), targetField, delimiter)

\* flat.py 415-418: the defaults the customer data does not set are added
addDefaults(customerJson, defaults) ==
    customerJson \o SelectSeq(defaults, LAMBDA e : e[1] \notin KeySet(customerJson))

\* the labels bound to the two date fields, in the order flat.py 422-425 visits them
dateLabels(t) ==
    Keys(SelectSeq(t, LAMBDA e : e[2] = "userBirthDate"))
      \o Keys(SelectSeq(t, LAMBDA e : e[2] = "userPrivExpires"))

\* convertDate that keeps a date that does not convert
convertDate_keep(t, st, fieldName, convertedDate) ==
    IF fieldName \notin KeySet(st.customer) THEN [st EXCEPT !.raised = TRUE]
    ELSE [st EXCEPT !.customer = IF convertedDate.date = NoneStr
                                 THEN st.customer
                                 ELSE Put(st.customer, fieldName, convertedDate.date),
                    !.errors = @ + (IF convertedDate.error THEN 1 ELSE 0)]

\* flat.py 426-434 for one label: customerJson[fieldName] raises KeyError when
\* the label is absent; a date that does not convert is removed
convertDate(t, st, fieldName, convertedDate) ==
    IF fieldName \notin KeySet(st.customer) THEN [st EXCEPT !.raised = TRUE]
    ELSE [st EXCEPT !.customer = IF convertedDate.date = NoneStr
                                 THEN Pop(st.customer, fieldName)
                                 ELSE Put(st.customer, fieldName, convertedDate.date),
                    !.errors = @ + (IF convertedDate.error THEN 1 ELSE 0)]

RECURSIVE convertDates(_, _, _)
\* flat.py 422-434 from the labels still to visit
convertDates(t, st, labels) ==
    IF labels = <<>> \/ st.raised THEN st
    ELSE convertDates(t,
                      convertDate(t, st, Head(labels),
                                  getAnsiDate(t, Head(labels), Get(st.customer, Head(labels)))),
                      Tail(labels))

RECURSIVE mergeAll(_, _)
\* flat.py 436-437: mergeFields for every item of self.mergedFields
mergeAll(customer, merges) ==
    IF merges = <<>> THEN customer
    ELSE mergeAll(mergeFields(customer, Head(merges)[1], Head(merges)[2], <<",", " ">>, TRUE),
                  Tail(merges))

\* flat.py 436-440 after the dates: the customer stored, unless KeyError was raised
storeCustomer(st) ==
    IF st.raised THEN [ret |-> FALSE, raised |-> TRUE, customer |-> st.customer, errors |-> st.errors]
    ELSE [ret |-> TRUE, raised |-> FALSE, customer |-> mergeAll(st.customer, mergedFields),
          errors |-> st.errors]

\* FlatWriter.appendCustomer: the value returned, whether KeyError was raised,
\* the customer appended when ret is TRUE, and the calls of printError(True, ...)
appendCustomer(t, defaults, customerJson) ==
    IF Len(customerJson) < minimumFields
    THEN [ret |-> FALSE, raised |-> FALSE, customer |-> customerJson, errors |-> 1]
    ELSE storeCustomer(convertDates(t, [customer |-> addDefaults(customerJson, defaults),
                                        errors |-> 0, raised |-> FALSE],
                                    dateLabels(t)))

\* a printed line (flat.py 448, 459, 460, 585, 586, 602)
Line(kind, tag, value) == [kind |-> kind, tag |-> tag, value |-> value]

\* flat.py 592-597 and 450-454: the Symphony tag of a customer field, or None
symphonyField(t, key) ==
    Get(symphonyTags, IF Get(t, key) = None THEN key ELSE Get(t, key))

\* the entries whose tag resolves
resolvable(t, entries) == SelectSeq(entries, LAMBDA e : symphonyField(t, e[1]) # None)

\* fieldLines that stops at the first entry whose tag does not resolve
fieldLines_untilError(t, entries) ==
    [i \in 1..Cardinality({n \in DOMAIN entries :
                               \A k \in 1..n : symphonyField(t, entries[k][1]) # None}) |->
        Line("field", symphonyField(t, entries[i][1]), entries[i][2])]

\* print(f".{symphonyField}.   |a{value}") for the entries whose tag resolves,
\* in the order of the entries
fieldLines(t, entries) ==
    [i \in DOMAIN resolvable(t, entries) |->
        Line("field", symphonyField(t, resolvable(t, entries)[i][1]),
             resolvable(t, entries)[i][2])]

\* the entries whose tag does not resolve: one printError(True, ...) each
unresolved(t, entries) == Len(SelectSeq(entries, LAMBDA e : symphonyField(t, e[1]) = None))

\* FlatWriter._printBlock_: the lines printed and the errors returned; a block
\* is printed only if it is not empty (flat.py 609-616)
printBlock(t, t2fBlockName, block) ==
    IF block = <<>> THEN [lines |-> <<>>, errors |-> 0]
    ELSE [lines |-> <<Line("begin", Get(symphonyTags, t2fBlockName), <<>>)>>
                      \o fieldLines(t, block)
                      \o <<Line("end", Get(symphonyTags, t2fBlockName), <<>>)>>,
          errors |-> unresolved(t, block)]

RECURSIVE putAll(_, _)
\* possibleBlock[customerField] = customer.get(customerField) for each entry
putAll(block, entries) ==
    IF entries = <<>> THEN block
    ELSE putAll(Put(block, Head(entries)[1], Head(entries)[2]), Tail(entries))

\* customerLines that prints the bracketed sections before the inline fields
customerLines_blocksFirst(t, customer, addr1, xinfo) ==
    [lines |-> <<Line("boundary", "", <<>>), Line("form", "", <<>>)>>
                 \o printBlock(t, "userAddr1", addr1).lines
                 \o printBlock(t, "userXinfo", xinfo).lines
                 \o fieldLines(t, SelectSeq(customer, LAMBDA e : e[1] \notin KeySet(blocks))),
     reported |-> <<unresolved(t, SelectSeq(customer, LAMBDA e : e[1] \notin KeySet(blocks)))
                      + printBlock(t, "userAddr1", addr1).errors
                      + printBlock(t, "userXinfo", xinfo).errors>>,
     addr1 |-> addr1, xinfo |-> xinfo]

\* flat.py 584-616 for one customer, with the two block dicts as its loop over
\* the customer's fields leaves them (addr2 and addr3 are never filled)
customerLines(t, customer, addr1, xinfo) ==
    [lines |-> <<Line("boundary", "", <<>>), Line("form", "", <<>>)>>
                 \o fieldLines(t, SelectSeq(customer, LAMBDA e : e[1] \notin KeySet(blocks)))
                 \o printBlock(t, "userAddr1", addr1).lines
                 \o printBlock(t, "userXinfo", xinfo).lines,
     reported |-> <<unresolved(t, SelectSeq(customer, LAMBDA e : e[1] \notin KeySet(blocks)))
                      + printBlock(t, "userAddr1", addr1).errors
                      + printBlock(t, "userXinfo", xinfo).errors>>,
     addr1 |-> addr1, xinfo |-> xinfo]

\* one customer serialized after the block dicts were filled from it
flatCustomer(t, customer, st) ==
    customerLines(t, customer,
                  putAll(st.addr1, SelectSeq(customer, LAMBDA e : Get(blocks, e[1]) = "addr1")),
                  putAll(st.xinfo, SelectSeq(customer, LAMBDA e : Get(blocks, e[1]) = "xinfo")))

RECURSIVE flatFrom(_, _, _, _)
\* the loop of flat.py 583-617 from the customers still to print, one being
\* what the customer before them printed
flatFrom(t, customers, st, one) ==
    IF customers = <<>>
    THEN [printed |-> st.printed \o one.lines, reported |-> st.reported \o one.reported,
          addr1 |-> one.addr1, xinfo |-> one.xinfo]
    ELSE flatFrom(t, Tail(customers),
                  [printed |-> st.printed \o one.lines, reported |-> st.reported \o one.reported,
                   addr1 |-> one.addr1, xinfo |-> one.xinfo],
                  flatCustomer(t, Head(customers), one))

RECURSIVE Sum(_)
\* sum(list)
Sum(list) == IF list = <<>> THEN 0 ELSE Head(list) + Sum(Tail(list))

\* FlatWriter.toFlat: what is printed, the per-customer error counts reported,
\* and the block dicts afterwards
toFlat(t, customers, addr1, xinfo) ==
    flatFrom(t, customers, [printed |-> <<>>, reported |-> <<>>],
             [lines |-> <<>>, reported |-> <<>>, addr1 |-> addr1, xinfo |-> xinfo])

\* FlatWriter.setDefaultSymphonyValue: the defaults afterwards and the value
\* returned; newValue is a string, fieldName a field name
setDefaultSymphonyValue(defaults, fieldName, newValue) ==
    IF fieldName = "" \/ newValue = <<>> THEN [defaults |-> defaults, ret |-> FALSE]
    ELSE IF fieldName \in KeySet(symphonyTags)
         THEN [defaults |-> Put(defaults, fieldName, newValue), ret |-> TRUE]
         ELSE [defaults |-> defaults, ret |-> FALSE]

\* the customer records appendCustomer is tried with for its date fields
AppendCustomers ==
    <<
       \* 1: no birthday field
       << <<"firstName", <<"L","e","w","i","s">> >>,
          <<"lastName", <<"H","a","m","i","l","t","o","n">> >>,
          <<"expiry", <<"2","0","2","1","-","0","8","-","2","2">> >> >>,
       \* 2: no expiry field
       << <<"firstName", <<"L","e","w","i","s">> >>,
          <<"lastName", <<"H","a","m","i","l","t","o","n">> >>,
          <<"birthday", <<"1","9","7","4","-","0","8","-","2","2">> >> >>,
       \* 3: a birthday and an expiry that match no ordering
       << <<"firstName", <<"H","a","r","o","l","d">> >>,
          <<"email", <<"h","@","e","p","l",".","c","a">> >>,
          <<"birthday", <<"F","o","o">> >>,
          <<"expiry", <<"n","e","v","e","r">> >> >>,
       \* 4: a valid birthday, day first, and an expiry that is no calendar date
       << <<"firstName", <<"L","e","w","i","s">> >>,
          <<"lastName", <<"H","a","m","i","l","t","o","n">> >>,
          <<"birthday", <<"2","2","0","8","1","9","9","9">> >>,
          <<"expiry", <<"2","0","2","1","-","0","2","-","3","0">> >> >>,
       \* 5: NEVER as birthday and as expiry
       << <<"lastName", <<"S","m","i","t","h">> >>,
          <<"birthday", <<"N","E","V","E","R">> >>,
          <<"expiry", <<"N","E","V","E","R">> >> >>,
       \* 6: an expiry that is NEVER once its separator is removed
       << <<"lastName", <<"S","m","i","t","h">> >>,
          <<"birthday", <<"0","8","/","2","2","/","1","9","9","9">> >>,
          <<"expiry", <<"N","E","V","-","E","R">> >> >>,
       \* 7: NEVER under the renamed expiry label
       << <<"firstName", <<"L","e","w","i","s">> >>,
          <<"birthday", <<"1","9","7","4","-","0","8","-","2","2">> >>,
          <<"expires", <<"N","E","V","E","R">> >> >>
    >>

\* the customer records appendCustomer is tried with for the defaults
DefaultCustomers ==
    <<
       \* 1: the doctest's customer, which supplies no field that has a default
       << <<"firstName", <<"L","e","w","i","s">> >>,
          <<"lastName", <<"H","a","m","i","l","t","o","n">> >>,
          <<"birthday", <<"1","9","7","4","-","0","8","-","2","2">> >>,
          <<"expiry", <<"2","0","2","1","-","0","8","-","2","2">> >> >>,
       \* 2: supplies notifyVia, which has a default, under its system name, and the
       \* library under its customer label branch
       << <<"firstName", <<"H","a","r","o","l","d">> >>,
          <<"branch", <<"E","P","L","W","M","C">> >>,
          <<"birthday", <<"1","9","9","9","-","0","8","-","2","2">> >>,
          <<"expiry", <<"N","E","V","E","R">> >>,
          <<"notifyVia", <<"E","M","A","I","L">> >> >>
    >>

\* the calls of setDefaultSymphonyValue: two of the doctest's with known field
\* names, the first a new default, the second a change, and one with an
\* unknown name
DefaultCalls ==
    {<<"userLibrary", <<"E","P","L","M","N","A">> >>, <<"userRoutingFlag", <<"N">> >>,
     <<"this", <<"t","h","a","t">> >>}

\* the customer records handed to appendCustomer
Customers ==
    <<
       \* 1: address and note fields, and two fields without a Symphony tag
       << <<"firstName", <<"H","a","r","o","l","d">> >>,
          <<"country", <<"C","a","n","a","d","a">> >>,
          <<"email", <<"h","@","e","p","l",".","c","a">> >>,
          <<"city", <<"E","d","m","o","n","t","o","n">> >>,
          <<"province", <<"A","B">> >>,
          <<"note", <<"H","i">> >>,
          <<"birthday", <<"2","2","0","8","1","9","9","9">> >>,
          <<"expiry", <<"1","2","/","3","1","/","2","0","2","3">> >>,
          <<"foo", <<"b","a","r">> >> >>,
       \* 2: a phone number and a care-of name, an invalid birthday and the expiry NEVER
       << <<"lastName", <<"S","m","i","t","h">> >>,
          <<"phone", <<"5","5","5","-","1","2","1","2">> >>,
          <<"careOf", <<"D","o","e">> >>,
          <<"birthday", <<"F","o","o">> >>,
          <<"expiry", <<"N","E","V","E","R">> >> >>,
       \* 3: fewer than minimumFields fields
       << <<"firstName", <<"L","e","w","i","s">> >>,
          <<"lastName", <<"H","a","m","i","l","t","o","n">> >> >>,
       \* 4: the doctest's customer
       << <<"firstName", <<"L","e","w","i","s">> >>,
          <<"lastName", <<"H","a","m","i","l","t","o","n">> >>,
          <<"birthday", <<"1","9","7","4","-","0","8","-","2","2">> >>,
          <<"expiry", <<"2","0","2","1","-","0","8","-","2","2">> >> >>
    >>

\* the renames of customer labels tried together with appendCustomer and toFlat;
\* the first one takes a label of the address block, the second one binds the
\* label phone to the field country, which has no Symphony tag
FlatRenames == {<<"email", "courriel">>, <<"country", "phone">>}

MaxAppends == 2
MaxFlats == 2
MaxFlatRenames == 1
MaxErrors == 2

\* the labels rename is called with: empty, bound in both tables, unbound
RenameLabels == {"", "firstName", "lastName", "nom", "Buffalo"}
MaxRenames == 2

(***************************************************************************)
(* State.  The TextParser fields keep their names; cols is the record last *)
(* handed to _findRequestedData_, before the two dicts as they were when   *)
(* that call began, calls the number of records handled, first the column  *)
(* assignment after the first record, uniform whether every record so far  *)
(* had the layout of its predecessor.  w_tagMap is FlatWriter._tagMap_;    *)
(* lastRename records the latest rename call and the table it found,       *)
(* prevRename the call before it.  some_date is the string handed to one   *)
(* of the date functions, written the calendar day and the notation it was *)
(* written from, called the function last called with it and returned what *)
(* that call gave back.  customersJson, totalErrors, addr1 and xinfo are   *)
(* the FlatWriter's fields; printed holds the lines of the latest toFlat   *)
(* call, reported the error count it reported for each customer, summary   *)
(* the customer and error counts of its closing message; lastAppend        *)
(* records the latest appendCustomer call, appends and flats count the     *)
(* calls, events counts the errors by kind: records rejected, dates        *)
(* dropped as invalid, tags not resolved.  mergeCall holds the arguments   *)
(* of a mergeFields call and merged the customer dict it leaves.           *)
(* w_defaults is FlatWriter._defaults_ and lastDefault the latest call of  *)
(* setDefaultSymphonyValue with the value it returned.                     *)
(***************************************************************************)
VARIABLES pc, exc, configs, now, tagMap, delimiter, requiredList, optionalList,
          requested_fields, corpus_dict, fields_collected, fields_histogram,
          total_records, success_threshold, cols, before, calls, first, uniform,
          w_tagMap, lastRename, prevRename, renames,
          some_date, written, called, returned,
          customersJson, totalErrors, addr1, xinfo, printed, reported, summary,
          lastAppend, appends, flats, events,
          mergeCall, merged,
          w_defaults, lastDefault

pvars == <<pc, exc, configs, now, tagMap, delimiter, requiredList, optionalList,
           requested_fields, corpus_dict, fields_collected, fields_histogram,
           total_records, success_threshold, cols, before, calls, first, uniform>>
rvars == <<lastRename, prevRename, renames>>
fvars == <<customersJson, totalErrors, addr1, xinfo, printed, reported, summary,
           lastAppend, appends, flats, events>>
wvars == <<w_tagMap, fvars>>
dvars == <<some_date, written, called, returned>>
mvars == <<mergeCall, merged>>
svars == <<w_defaults, lastDefault>>
vars == <<pvars, wvars, rvars, dvars, mvars, svars>>

EmptyDict == [x \in {} |-> 0]
NoConfig == [Config({}, <<>>, <<>>, <<>>, <<>>, 0) EXCEPT !.isNone = TRUE]

\* no date function has been called
NoDay == [day |-> <<0, 0, 0>>, order |-> None, sep |-> <<>>]
NoReturn == [date |-> NoneStr, flag |-> FALSE, raised |-> FALSE]

\* setDefaultSymphonyValue has not been called
NoDefault == [fieldName |-> "", newValue |-> <<>>, ret |-> FALSE]

NoAppend == [customerJson |-> <<>>, ret |-> FALSE, raised |-> FALSE, errors |-> 0]

\* a TextParser and a FlatWriter as constructed, the clock being one of nows
Constructed(nows) ==
    /\ pc = "new"
    /\ exc = None
    /\ configs = NoConfig
    /\ now \in nows
    /\ tagMap = ParserTagMap0
    /\ delimiter = <<",">>
    /\ requiredList = <<>>
    /\ optionalList = <<>>
    /\ requested_fields = <<>>
    /\ corpus_dict = EmptyDict
    /\ fields_collected = EmptyDict
    /\ fields_histogram = EmptyDict
    /\ total_records = 0
    /\ success_threshold = 90
    /\ cols = <<>>
    /\ before = [collected |-> EmptyDict, histogram |-> EmptyDict]
    /\ calls = 0
    /\ first = EmptyDict
    /\ uniform = TRUE
    /\ w_tagMap = WriterTagMap0
    /\ w_defaults = Defaults0
    /\ lastDefault = NoDefault
    /\ customersJson = <<>>
    /\ totalErrors = 0
    /\ addr1 = <<>>
    /\ xinfo = <<>>
    /\ printed = <<>>
    /\ reported = <<>>
    /\ summary = <<>>
    /\ lastAppend = NoAppend
    /\ appends = 0
    /\ flats = 0
    /\ events = [rejected |-> 0, dates |-> 0, tags |-> 0]
    /\ lastRename = [table |-> None, oldName |-> "", newName |-> "", before |-> <<>>, ret |-> FALSE]
    /\ prevRename = [table |-> None, oldName |-> "", newName |-> "", before |-> <<>>, ret |-> FALSE]
    /\ renames = 0

\* mergeFields has not been called
NoMerge ==
    /\ mergeCall = [customer |-> <<>>, targetField |-> "", mergeFields |-> <<>>,
                    delimiter |-> <<>>, purgeFields |-> FALSE]
    /\ merged = [done |-> FALSE, customer |-> <<>>]

Init ==
    /\ Constructed(Nows)
    /\ some_date = <<>>
    /\ written = NoDay
    /\ called = None
    /\ returned = NoReturn
    /\ NoMerge

\* whether a cell satisfies the heuristic of a field, whatever is claimed
Satisfies(field, d, cd, nw) ==
    CASE strategyKind(field) = "pattern" -> field \in MatchesOf[d]
      [] strategyKind(field) = "corpus" -> CorpusSetOf[cd[field]] \cap WordsOf[d] # {}
      [] strategyKind(field) = "date" -> field \in RoleOf[nw][d]

\* for each requested field, the columns of a record that satisfy its heuristic
Layout(record, requested, cd, nw) ==
    [i \in DOMAIN requested |->
        {idx \in DOMAIN record : Satisfies(requested[i][1], record[idx], cd, nw)}]

\* the fields of a parser whose constructor has just started (text.py 81-136)
started ==
    [pc |-> "raised", exc |-> ValueError, tagMap |-> ParserTagMap0,
     delimiter |-> <<",">>, requiredList |-> <<>>, optionalList |-> <<>>,
     requested_fields |-> <<>>, corpus_dict |-> EmptyDict,
     fields_collected |-> EmptyDict, fields_histogram |-> EmptyDict,
     total_records |-> 0, success_threshold |-> 90, cols |-> <<>>, found |-> FALSE]

\* text.py 147-149 once _findRequestedData_ has returned st for the record
handled(p, record, st) ==
    [p EXCEPT !.pc = IF st.exc = None THEN "ready" ELSE "raised",
              !.exc = st.exc, !.total_records = 1, !.cols = record, !.found = TRUE,
              !.fields_collected = st.collected, !.fields_histogram = st.histogram]

\* text.py 137-149: the data is a file of lines or one line of text
readData(p, data, nw) ==
    IF data.isfile
    THEN IF data.lines = <<>> THEN [p EXCEPT !.pc = "ready", !.exc = None]
         \* text.py 143: the name 'this' is not defined
         ELSE [p EXCEPT !.exc = NameError, !.total_records = 1,
                        !.cols = Split(data.lines[1], p.delimiter)]
    ELSE handled(p, Split(data.text, p.delimiter),
                 findRequestedData(p.requested_fields, Split(data.text, p.delimiter),
                                   EmptyDict, EmptyDict, p.corpus_dict, nw))

\* loadCorpora that does not test whether the corpus files exist
loadCorpora_anyFile(p, cfg, data, nw) ==
    IF ~Has(cfg, "corpus") THEN p
    ELSE IF \E k \in DOMAIN corpusNames :
               corpusNames[k] \notin DOMAIN loadCorpusDict(p.tagMap, cfg.corpus)
    THEN [p EXCEPT !.corpus_dict = loadCorpusDict(p.tagMap, cfg.corpus)]
    ELSE readData([p EXCEPT !.corpus_dict = loadCorpusDict(p.tagMap, cfg.corpus)], data, nw)

\* text.py 132-149: _loadCorpora_ raises or the data is read
loadCorpora(p, cfg, data, nw) ==
    IF ~Has(cfg, "corpus") THEN p
    ELSE IF \E k \in DOMAIN corpusNames :
               \/ corpusNames[k] \notin DOMAIN loadCorpusDict(p.tagMap, cfg.corpus)
               \/ loadCorpusDict(p.tagMap, cfg.corpus)[corpusNames[k]] \notin DOMAIN Files
    THEN [p EXCEPT !.corpus_dict = loadCorpusDict(p.tagMap, cfg.corpus)]
    ELSE readData([p EXCEPT !.corpus_dict = loadCorpusDict(p.tagMap, cfg.corpus)], data, nw)

\* text.py 121-149: _loadRequestedFields_ raises or the corpora are loaded
loadRequested(p, cfg, data, nw) ==
    IF ~Has(cfg, "required") THEN p
    ELSE loadCorpora([p EXCEPT !.requiredList = cfg.required,
                               !.optionalList = loadOptionalList(cfg),
                               !.requested_fields =
                                   loadRequestedFields(p.tagMap, cfg.required,
                                                       loadOptionalList(cfg))],
                     cfg, data, nw)

\* TextParser.__init__ (text.py 63-149): the fields as they are when the
\* constructor returns (pc "ready") or raises (pc "raised")
construct(cfg, data, nw) ==
    IF cfg.isNone \/ Cardinality(cfg.keys) < 1 THEN started
    ELSE loadRequested(
             [started EXCEPT
                 !.tagMap = rebindFieldNames(ParserTagMap0,
                                IF Has(cfg, "fieldBindings") THEN cfg.fieldBindings ELSE <<>>),
                 !.delimiter = setDelimiter(cfg)],
             cfg, data, nw)

\* t = TextParser(cfg, data)
Construct(cfg, data) ==
    /\ pc = "new"
    /\ \E r \in {construct(cfg, data, now)} :
           /\ pc' = r.pc
           /\ exc' = r.exc
           /\ tagMap' = r.tagMap
           /\ delimiter' = r.delimiter
           /\ requiredList' = r.requiredList
           /\ optionalList' = r.optionalList
           /\ requested_fields' = r.requested_fields
           /\ corpus_dict' = r.corpus_dict
           /\ fields_collected' = r.fields_collected
           /\ fields_histogram' = r.fields_histogram
           /\ total_records' = r.total_records
           /\ success_threshold' = r.success_threshold
           /\ cols' = r.cols
           /\ calls' = IF r.found /\ r.exc = None THEN 1 ELSE 0
           /\ first' = IF r.found /\ r.exc = None THEN r.fields_collected ELSE EmptyDict
    /\ configs' = cfg
    /\ before' = [collected |-> EmptyDict, histogram |-> EmptyDict]
    /\ UNCHANGED <<svars, now, uniform, wvars, rvars, dvars, mvars>>

\* t._findRequestedData_(record) on a constructed parser
FindRequestedData(record) ==
    /\ pc = "ready"
    /\ calls < MaxRecords
    /\ \E st \in {findRequestedData(requested_fields, record, fields_collected,
                                   fields_histogram, corpus_dict, now)} :
           /\ fields_collected' = st.collected
           /\ fields_histogram' = st.histogram
           /\ exc' = st.exc
           /\ calls' = IF st.exc = None THEN calls + 1 ELSE calls
           /\ first' = IF calls = 0 /\ st.exc = None THEN st.collected ELSE first
    /\ cols' = record
    /\ before' = [collected |-> fields_collected, histogram |-> fields_histogram]
    /\ uniform' = IF calls = 0 THEN TRUE
                  ELSE /\ uniform
                       /\ Layout(record, requested_fields, corpus_dict, now)
                            = Layout(cols, requested_fields, corpus_dict, now)
    /\ UNCHANGED <<svars, pc, configs, now, tagMap, delimiter, requiredList, optionalList,
                   requested_fields, corpus_dict, total_records, success_threshold,
                   wvars, rvars, dvars, mvars>>

\* t._setThreshold_(configs) with the configuration the parser was built from
SetThreshold ==
    /\ pc = "ready"
    /\ success_threshold' = setThreshold(configs)
    /\ UNCHANGED <<svars, pc, exc, configs, now, tagMap, delimiter, requiredList, optionalList,
                   requested_fields, corpus_dict, fields_collected, fields_histogram,
                   total_records, cols, before, calls, first, uniform, wvars, rvars, dvars, mvars>>

Next ==
    \/ \E cfg \in Configs, data \in DataInputs : Construct(cfg, data)
    \/ \E record \in Records : FindRequestedData(record)
    \/ SetThreshold

Spec == Init /\ [][Next]_vars

\* the constructor and _setThreshold_ alone
NextConstruct ==
    \/ \E cfg \in Configs, data \in DataInputs : Construct(cfg, data)
    \/ SetThreshold

SpecConstruct == Init /\ [][NextConstruct]_vars

(***************************************************************************)
(* The two binding tables under rename calls.                              *)
(***************************************************************************)
\* t.renameField(oldName, newName)
RenameField(oldName, newName) ==
    /\ renames < MaxRenames
    /\ tagMap' = renameField(tagMap, oldName, newName)
    /\ lastRename' = [table |-> "parser", oldName |-> oldName, newName |-> newName,
                      before |-> tagMap, ret |-> FALSE]
    /\ prevRename' = lastRename
    /\ renames' = renames + 1
    /\ UNCHANGED <<svars, pc, exc, configs, now, delimiter, requiredList, optionalList,
                   requested_fields, corpus_dict, fields_collected, fields_histogram,
                   total_records, success_threshold, cols, before, calls, first, uniform,
                   wvars, dvars, mvars>>

\* f.renameCustomerField(oldName, newName)
RenameCustomerField(oldName, newName) ==
    /\ renames < MaxRenames
    /\ \E r \in {renameCustomerField(w_tagMap, oldName, newName)} :
           /\ w_tagMap' = r.tagMap
           /\ lastRename' = [table |-> "writer", oldName |-> oldName, newName |-> newName,
                             before |-> w_tagMap, ret |-> r.ret]
    /\ prevRename' = lastRename
    /\ renames' = renames + 1
    /\ UNCHANGED <<svars, pvars, dvars, fvars, mvars>>

NextRename ==
    \/ \E oldName \in RenameLabels, newName \in RenameLabels : RenameField(oldName, newName)
    \/ \E oldName \in RenameLabels, newName \in RenameLabels : RenameCustomerField(oldName, newName)

SpecRename == Init /\ [][NextRename]_vars

(***************************************************************************)
(* The date functions on their own: a string is written from a calendar    *)
(* day in one of the notations the patterns accept (or is not a date at    *)
(* all), the clock shows one of DateNows, and getDate, isExpiry and        *)
(* isBirthDate are called with the string.                                 *)
(***************************************************************************)
\* the calendar days of the clock, each at midnight sharp and later that day
DateNowDays == {<<2021, 3, 1>>, <<2022, 11, 6>>}
DateNows == {[ord |-> Ordinal(d[1], d[2], d[3]), tod |-> t] : d \in DateNowDays, t \in {0, 1}}

\* the calendar days written: around 2, 50 and 100 years and around 730 and
\* 36500 days before each clock day, around the clock day itself, and days
\* after the 12th of a month in and outside the centuries the patterns accept
Days ==
    {<<1971, 3, 1>>, <<1921, 2, 28>>, <<1921, 3, 1>>, <<1921, 3, 2>>,
     <<1921, 3, 25>>, <<1921, 3, 26>>, <<1921, 3, 27>>,
     <<2019, 3, 1>>, <<2019, 3, 2>>, <<2019, 3, 3>>,
     <<2021, 2, 28>>, <<2021, 3, 1>>, <<2021, 3, 2>>, <<2021, 3, 3>>,
     <<1972, 11, 6>>, <<1922, 11, 5>>, <<1922, 11, 6>>, <<1922, 11, 7>>,
     <<1922, 11, 30>>, <<1922, 12, 1>>, <<1922, 12, 2>>,
     <<2020, 11, 5>>, <<2020, 11, 6>>, <<2020, 11, 7>>,
     <<2022, 11, 5>>, <<2022, 11, 6>>, <<2022, 11, 7>>, <<2022, 11, 8>>,
     <<1850, 7, 14>>, <<1899, 12, 31>>, <<1900, 1, 13>>, <<1999, 8, 22>>,
     <<2000, 2, 29>>, <<2024, 2, 29>>, <<2099, 12, 31>>, <<2100, 1, 13>>}

Orders == {"mdY", "dmY", "Ymd"}
Seps == {<<>>, <<"-">>, <<"/">>}

\* a calendar day written in an order with a separator, e.g. 08/22/1999
Write(day, order, sep) ==
    LET s == yyyymmdd([y |-> day[1], m |-> day[2], d |-> day[3]])
        Y == SubSeq(s, 1, 4)
        M == SubSeq(s, 5, 6)
        D == SubSeq(s, 7, 8)
    IN  CASE order = "mdY" -> M \o sep \o D \o sep \o Y
          [] order = "dmY" -> D \o sep \o M \o sep \o Y
          [] order = "Ymd" -> Y \o sep \o M \o sep \o D

\* strings that are not written from a calendar day: the reserved word, the
\* empty string, words, a day no month has, a date with a time of day
RawDates ==
    {NEVER, <<>>, <<"F","o","o">>, <<"n","e","v","e","r">>,
     <<"0","2","/","3","0","/","2","0","2","1">>,
     <<"3","1","-","0","6","-","2","0","2","2">>,
     <<"2","0","2","2">>,
     <<"2","0","2","2","-","1","1","-","0","8"," ","1","8",":","0","2",":","0","1">>}

InitDate ==
    /\ Constructed(DateNows)
    /\ \/ \E day \in Days, order \in Orders, sep \in Seps :
              /\ some_date = Write(day, order, sep)
              /\ written = [day |-> day, order |-> order, sep |-> sep]
       \/ some_date \in RawDates /\ written = NoDay
    /\ called = None
    /\ returned = NoReturn
    /\ NoMerge

\* t.getDate(some_date)
GetDate ==
    /\ called' = "getDate"
    /\ returned' = [date |-> getDate(some_date), flag |-> FALSE, raised |-> FALSE]
    /\ UNCHANGED <<svars, pvars, wvars, rvars, some_date, written, mvars>>

\* t.isExpiry(some_date): the value returned, or ValueError out of strptime
IsExpiry ==
    /\ called' = "isExpiry"
    /\ returned' = [date |-> NoneStr,
                    flag |-> ~roleTestRaises(some_date) /\ isExpiry(some_date, now),
                    raised |-> roleTestRaises(some_date)]
    /\ UNCHANGED <<svars, pvars, wvars, rvars, some_date, written, mvars>>

\* t.isBirthDate(some_date): the value returned, or ValueError out of strptime
IsBirthDate ==
    /\ called' = "isBirthDate"
    /\ returned' = [date |-> NoneStr,
                    flag |-> ~roleTestRaises(some_date) /\ isBirthDate(some_date, now),
                    raised |-> roleTestRaises(some_date)]
    /\ UNCHANGED <<svars, pvars, wvars, rvars, some_date, written, mvars>>

\* f.getAnsiDate(fieldName, some_date): printError(True, ...) counts an error
GetAnsiDate(fieldName) ==
    /\ totalErrors < MaxErrors
    /\ called' = "getAnsiDate"
    /\ \E r \in {getAnsiDate(w_tagMap, fieldName, some_date)} :
           /\ returned' = [date |-> r.date, flag |-> r.error, raised |-> FALSE]
           /\ totalErrors' = totalErrors + (IF r.error THEN 1 ELSE 0)
    /\ UNCHANGED <<svars, pvars, rvars, w_tagMap, some_date, written, customersJson, addr1, xinfo,
                   printed, reported, summary, lastAppend, appends, flats, events, mvars>>

NextDate ==
    \/ GetDate
    \/ IsExpiry
    \/ IsBirthDate
    \/ \E fieldName \in {"birthday", "expiry"} : GetAnsiDate(fieldName)

SpecDate == InitDate /\ [][NextDate]_vars

(***************************************************************************)
(* The FlatWriter: customers are appended, labels renamed and the flat     *)
(* file printed, in any order.                                             *)
(***************************************************************************)
\* f.appendCustomer(customerJson)
AppendCustomer(customerJson) ==
    /\ appends < MaxAppends
    /\ \E r \in {appendCustomer(w_tagMap, w_defaults, customerJson)} :
           /\ customersJson' = IF r.ret THEN Append(customersJson, r.customer) ELSE customersJson
           /\ totalErrors' = totalErrors + r.errors
           /\ lastAppend' = [customerJson |-> customerJson, ret |-> r.ret, raised |-> r.raised,
                             errors |-> r.errors]
           /\ events' = IF Len(customerJson) < minimumFields
                        THEN [events EXCEPT !.rejected = @ + 1]
                        ELSE [events EXCEPT !.dates = @ + r.errors]
    /\ appends' = appends + 1
    /\ UNCHANGED <<svars, pvars, rvars, dvars, w_tagMap, addr1, xinfo, printed, reported, summary,
                   flats, mvars>>

\* f.toFlat(): the opening printError(True, ...) counts one error, every tag
\* that does not resolve another
ToFlat ==
    /\ flats < MaxFlats
    /\ \E r \in {toFlat(w_tagMap, customersJson, addr1, xinfo)} :
           /\ printed' = r.printed
           /\ reported' = r.reported
           /\ addr1' = r.addr1
           /\ xinfo' = r.xinfo
           /\ totalErrors' = totalErrors + 1 + Sum(r.reported)
           /\ summary' = <<Len(customersJson), totalErrors + 1 + Sum(r.reported)>>
           /\ events' = [events EXCEPT !.tags = @ + Sum(r.reported)]
    /\ flats' = flats + 1
    /\ UNCHANGED <<svars, pvars, rvars, dvars, w_tagMap, customersJson, lastAppend, appends, mvars>>

NextFlat ==
    \/ \E i \in DOMAIN Customers : AppendCustomer(Customers[i])
    \/ ToFlat
    \/ \E names \in FlatRenames :
           renames < MaxFlatRenames /\ RenameCustomerField(names[1], names[2])

SpecFlat == Init /\ [][NextFlat]_vars

(***************************************************************************)
(* appendCustomer on records whose date fields are absent, invalid or      *)
(* NEVER, with the expiry label renamed or not, and toFlat of what was     *)
(* stored.                                                                 *)
(***************************************************************************)
NextAppend ==
    \/ \E i \in DOMAIN AppendCustomers : AppendCustomer(AppendCustomers[i])
    \/ ToFlat
    \/ renames < MaxFlatRenames /\ RenameCustomerField("expiry", "expires")

SpecAppend == Init /\ [][NextAppend]_vars

\* f.setDefaultSymphonyValue(fieldName, newValue)
SetDefaultSymphonyValue(fieldName, newValue) ==
    /\ \E r \in {setDefaultSymphonyValue(w_defaults, fieldName, newValue)} :
           /\ w_defaults' = r.defaults
           /\ lastDefault' = [fieldName |-> fieldName, newValue |-> newValue, ret |-> r.ret]
    /\ UNCHANGED <<pvars, wvars, rvars, dvars, mvars>>

(***************************************************************************)
(* The defaults: setDefaultSymphonyValue, appendCustomer on records that   *)
(* supply or do not supply the fields that have a default, and toFlat.     *)
(***************************************************************************)
NextDefaults ==
    \/ \E call \in DefaultCalls : SetDefaultSymphonyValue(call[1], call[2])
    \/ \E i \in DOMAIN DefaultCustomers : AppendCustomer(DefaultCustomers[i])
    \/ ToFlat

SpecDefaults == Init /\ [][NextDefaults]_vars

(***************************************************************************)
(* mergeFields on its own: the arguments are drawn from the doctest's      *)
(* customers, targets, field lists and delimiters, with and without purge. *)
(***************************************************************************)
MergeCustomers ==
    {<< <<"firstName", <<"L","e","w","i","s">> >>, <<"lastName", <<"H","a","m","i","l","t","o","n">> >> >>,
     << <<"firstName", <<"L","e","w","i","s">> >>, <<"lastName", <<"H","a","m","i","l","t","o","n">> >>,
        <<"middleName", <<"L","e","s","l","i","e">> >> >>,
     << <<"foo", <<"b","a","r">> >>, <<"bizz", <<"b","a","z">> >> >>,
     << <<"firstName", <<>> >>, <<"lastName", <<"H","a","m","i","l","t","o","n">> >> >>,
     <<>>}

MergeLists ==
    {<<"lastName", "firstName">>, <<"lastName", "middleName", "firstName">>, <<"bizz">>,
     <<"lastName", "firstName", "note">>, <<"firstName">>, <<"firstName", "firstName">>}

InitMerge ==
    /\ Constructed(Nows)
    /\ some_date = <<>>
    /\ written = NoDay
    /\ called = None
    /\ returned = NoReturn
    /\ mergeCall \in [customer : MergeCustomers, targetField : {"lastName", "firstName", "name"},
                      mergeFields : MergeLists, delimiter : {<<",", " ">>, <<"|">>},
                      purgeFields : BOOLEAN]
    /\ merged = [done |-> FALSE, customer |-> <<>>]

\* f.mergeFields(custJson, targetField, mergeFields, delimiter, purgeFields)
MergeFields ==
    /\ ~merged.done
    /\ merged' = [done |-> TRUE,
                  customer |-> mergeFields(mergeCall.customer, mergeCall.targetField,
                                           mergeCall.mergeFields, mergeCall.delimiter,
                                           mergeCall.purgeFields)]
    /\ UNCHANGED <<svars, pvars, wvars, rvars, dvars, mergeCall>>

SpecMerge == InitMerge /\ [][MergeFields]_vars

(***************************************************************************)
(* Properties of the column detector.                                      *)
(***************************************************************************)
\* a record has been handled and the call returned
Handled == pc = "ready" /\ calls >= 1 /\ exc = None

RequestedSet == {requested_fields[i][1] : i \in DOMAIN requested_fields}
RequiredSet == {requested_fields[i][1] : i \in {j \in DOMAIN requested_fields : requested_fields[j][2]}}
KindOf(field) == strategyKind(field)

\* histogram.get(field, 0)
HistOf(histogram, field) == IF field \in DOMAIN histogram THEN histogram[field] ELSE 0

\* the last record counted for the field
DetectedNow(field) == HistOf(fields_histogram, field) = HistOf(before.histogram, field) + 1

\* the last record changed neither the field's assignment nor its count
Untouched(field) ==
    /\ (field \in DOMAIN fields_collected) = (field \in DOMAIN before.collected)
    /\ field \in DOMAIN before.collected => fields_collected[field] = before.collected[field]
    /\ HistOf(fields_histogram, field) = HistOf(before.histogram, field)

\* the columns (from 1) of the last record that satisfy the field's heuristic
Candidates(field) == {idx \in DOMAIN cols : Satisfies(field, cols[idx], corpus_dict, now)}

\* the verdict of isWellFormed in the current state
WellFormed ==
    isWellFormed(fields_collected, fields_histogram, requested_fields, total_records,
                 success_threshold)

\* C1: a corpus-strategy field gets the first column whose words meet the
\* corpus and whose index no field detected earlier in the same record has
\* claimed; an index assigned while an earlier record was handled stays eligible.
C1_CorpusSkipsSameRecordClaimsOnly ==
    Handled =>
        \A i \in DOMAIN requested_fields :
            LET field == requested_fields[i][1]
                claimed == {fields_collected[requested_fields[j][1]] :
                               j \in {k \in 1..(i - 1) : DetectedNow(requested_fields[k][1])}}
                eligible == {idx \in Candidates(field) : (idx - 1) \notin claimed}
            IN  KindOf(field) = "corpus" =>
                    IF eligible # {}
                    THEN DetectedNow(field) /\ fields_collected[field] = Min(eligible) - 1
                    ELSE Untouched(field)

\* C2: a requested field of any strategy that no column of the record
\* satisfies keeps its assignment (absent stays absent) and its count.
C2_FailureLeavesFieldUntouched ==
    Handled =>
        \A field \in RequestedSet : Candidates(field) = {} => Untouched(field)

\* C3: when all N records have one layout, in which every requested field has
\* its column, every field keeps the index of the first record and its count is N.
C3_StableLayoutCountsEveryRecord ==
    (/\ Handled
     /\ uniform
     /\ \A field \in RequestedSet :
            field \in DOMAIN first /\ (first[field] + 1) \in Candidates(field))
    => \A field \in RequestedSet :
           /\ field \in DOMAIN fields_collected
           /\ fields_collected[field] = first[field]
           /\ HistOf(fields_histogram, field) = calls

\* the canonical fields the labels of a configured list are bound to
NamedBy(list) == {Get(tagMap, list[i]) : i \in DOMAIN list} \ {None}

\* C4: the requested fields are the fields named by 'required' together with
\* those named by 'optional', through the label bindings, in scan priority
\* order; a field in both lists is required.
C4_RequestedIsRequiredAndOptional ==
    pc = "ready" =>
        LET wanted == NamedBy(configs.required) \cup NamedBy(configs.optional)
            inOrder == SelectSeq(preferredSearchOrder, LAMBDA f : f \in wanted)
        IN  requested_fields =
                [i \in DOMAIN inOrder |-> <<inOrder[i], inOrder[i] \in NamedBy(configs.required)>>]

\* C5 as stated: isWellFormed is false whenever a field named in 'required'
\* has no entry in the column assignment.
C5_AnyRequiredNameMissingFails ==
    pc = "ready" =>
        ((\E i \in DOMAIN requiredList : Get(tagMap, requiredList[i]) \notin DOMAIN fields_collected)
            => ~WellFormed)

\* C5 amended: isWellFormed is false whenever a requested required field (a
\* 'required' name bound to a field of the scan order) has no entry in the
\* column assignment, and the requested fields never change once loaded.
C5_RequestedRequiredMissingFails ==
    /\ [](pc = "ready" => (RequiredSet \ DOMAIN fields_collected # {} => ~WellFormed))
    /\ [][pc = "ready" => requested_fields' = requested_fields]_vars

C5_Witness ==
    /\ Handled
    /\ RequiredSet \ DOMAIN fields_collected # {}
    /\ DOMAIN fields_collected # {}

\* count / total >= threshold / 100
Meets(count, total, threshold) == total >= 1 /\ count * 100 >= threshold * total

\* C6: with every required field assigned, isWellFormed is true iff every
\* required field meets the threshold, the boundary included: 9 of 10 at 90%
\* passes and 8 of 10 fails.
C6_ThresholdBoundaryInclusive ==
    /\ (pc = "ready" /\ RequiredSet \subseteq DOMAIN fields_collected) =>
           (WellFormed <=>
               \A field \in RequiredSet :
                   Meets(HistOf(fields_histogram, field), total_records, success_threshold))
    /\ isWellFormed([f \in {"email"} |-> 0], [f \in {"email"} |-> 9],
                    << <<"email", TRUE>> >>, 10, 90)
    /\ ~isWellFormed([f \in {"email"} |-> 0], [f \in {"email"} |-> 8],
                     << <<"email", TRUE>> >>, 10, 90)

\* a required field sits exactly on the threshold and the verdict is true
C6_Witness ==
    /\ Handled
    /\ RequiredSet # {}
    /\ RequiredSet \subseteq DOMAIN fields_collected
    /\ \E field \in RequiredSet :
           fields_histogram[field] * 100 = success_threshold * total_records
    /\ WellFormed

\* C7: the threshold isWellFormed uses is the configured 'threshold' when the
\* configuration has one, and 90 only when it has none.
C7_ThresholdFromConfiguration ==
    pc = "ready" =>
        success_threshold = (IF Has(configs, "threshold") THEN configs.threshold ELSE 90)

\* C8: a pattern-strategy field is assigned the lowest column whose trimmed
\* value matches its pattern, and nothing when none matches; the sample row
\* gives userId 8, postalcode 6 and email 10.
C8_PatternTakesLowestTrimmedMatch ==
    Handled =>
        /\ \A field \in RequestedSet :
               KindOf(field) = "pattern" =>
                   IF Candidates(field) # {}
                   THEN DetectedNow(field) /\ fields_collected[field] = Min(Candidates(field)) - 1
                   ELSE Untouched(field)
        /\ (cols = SampleRow /\ {"userId", "postalcode", "email"} \subseteq RequestedSet) =>
               /\ {"userId", "postalcode", "email"} \subseteq DOMAIN fields_collected
               /\ fields_collected["userId"] = 8
               /\ fields_collected["postalcode"] = 6
               /\ fields_collected["email"] = 10

C8_Witness ==
    /\ Handled
    /\ cols = SampleRow
    /\ {"userId", "postalcode", "email"} \subseteq DOMAIN fields_collected
    /\ fields_collected["userId"] = 8
    /\ fields_collected["postalcode"] = 6
    /\ fields_collected["email"] = 10

(***************************************************************************)
(* Properties of the binding tables.                                       *)
(***************************************************************************)
\* the table the latest rename call left behind
Renamed == IF lastRename.table = "parser" THEN tagMap ELSE w_tagMap

\* C9: rename with an empty old label, an empty new label or an unbound old
\* label leaves the table as it was, and renameCustomerField returns False.
C9_RenameNoOp ==
    (/\ lastRename.table # None
     /\ \/ lastRename.oldName = ""
        \/ lastRename.newName = ""
        \/ lastRename.oldName \notin KeySet(lastRename.before))
    => /\ Renamed = lastRename.before
       /\ lastRename.table = "writer" => lastRename.ret = FALSE

\* C10: rename of a bound old label to any non-empty new label removes the
\* old label, binds the new label to its value as the last entry and keeps
\* every other binding, its value and the order.
C10_RenameMovesEntryLast ==
    (/\ lastRename.table # None
     /\ lastRename.oldName \in KeySet(lastRename.before)
     /\ lastRename.newName # "")
    => Renamed = Append(Pop(lastRename.before, lastRename.oldName),
                        <<lastRename.newName, Get(lastRename.before, lastRename.oldName)>>)

\* the two latest rename calls went to the same table, the second renaming
\* the label the first one introduced: A -> B, then B -> C, all labels non-empty
Chained ==
    /\ prevRename.table # None
    /\ lastRename.table = prevRename.table
    /\ lastRename.oldName = prevRename.newName
    /\ prevRename.oldName \in KeySet(prevRename.before)
    /\ prevRename.oldName # "" /\ prevRename.newName # "" /\ lastRename.newName # ""

\* the table a single rename A -> C makes of the table the chain started from
Direct ==
    IF prevRename.table = "parser"
    THEN renameField(prevRename.before, prevRename.oldName, lastRename.newName)
    ELSE renameCustomerField(prevRename.before, prevRename.oldName, lastRename.newName).tagMap

\* a binding table as a mapping, without the order of its entries
AsMap(t) == [k \in KeySet(t) |-> Get(t, k)]

\* C11: renaming a bound label A to B and then B to C gives the table that
\* renaming A to C gives: C is bound to A's value, neither A nor B is bound,
\* and every other binding is as it was.
C11_RenameChainEqualsDirect ==
    Chained =>
        /\ AsMap(Renamed) = AsMap(Direct)
        /\ lastRename.newName \in KeySet(Renamed)
        /\ Get(Renamed, lastRename.newName) = Get(prevRename.before, prevRename.oldName)
        /\ prevRename.oldName # lastRename.newName => prevRename.oldName \notin KeySet(Renamed)
        /\ prevRename.newName # lastRename.newName => prevRename.newName \notin KeySet(Renamed)
        /\ \A k \in KeySet(prevRename.before) \ {prevRename.oldName, prevRename.newName,
                                                  lastRename.newName} :
               k \in KeySet(Renamed) /\ Get(Renamed, k) = Get(prevRename.before, k)

\* the same with an intermediate label B that no other entry of the table holds
C11_FreshIntermediate ==
    (Chained /\ prevRename.newName \notin KeySet(prevRename.before) \ {prevRename.oldName})
    => C11_RenameChainEqualsDirect

C11_Witness ==
    /\ Chained
    /\ prevRename.oldName = "firstName" /\ prevRename.newName = "nom"
    /\ lastRename.newName = "Buffalo"
    /\ lastRename.table = "writer"
    /\ "Buffalo" \in KeySet(w_tagMap)

(***************************************************************************)
(* Properties of the date functions.                                       *)
(***************************************************************************)
\* the written calendar day as the 8 characters yyyymmdd
Canonical == yyyymmdd([y |-> written.day[1], m |-> written.day[2], d |-> written.day[3]])

\* getDate was called with a day after the 12th written as mmddyyyy or ddmmyyyy
UnambiguousWritten ==
    /\ called = "getDate"
    /\ written.order \in {"mdY", "dmY"}
    /\ written.sep = <<>>
    /\ written.day[3] > 12

C14_NeverIsNoExpiry ==
    some_date = NEVER =>
        /\ called = "getDate" => returned.date = NEVER
        /\ called = "isExpiry" => ~returned.raised /\ ~returned.flag
        /\ called = "isBirthDate" => ~returned.raised

\* the part of C14 about getDate alone
C14_GetDateKeepsNever ==
    (some_date = NEVER /\ called = "getDate") => returned.date = NEVER

\* the calendar date getDate makes of some_date (valid is FALSE when it makes none)
Parsed == strptime(getDate(some_date), "Ymd")
ParsedOrd == Ordinal(Parsed.y, Parsed.m, Parsed.d)

\* the calendar day the clock shows, and the same day of the year k years earlier
NowDay == CHOOSE d \in DateNowDays : Ordinal(d[1], d[2], d[3]) = now.ord
YearsAgo(k) == Ordinal(NowDay[1] - k, NowDay[2], NowDay[3])

\* isBirthDate was called with a string that getDate turns into a calendar date
BirthTested == called = "isBirthDate" /\ Parsed.valid

\* C15: at any evaluation time isBirthDate returns false for a date more than
\* 100 years in the past and for a date less than 2 years in the past (future
\* dates included), and true for the date exactly 50 years in the past.
C15_BirthDateWindow ==
    BirthTested =>
        /\ 2 * ParsedOrd < 2 * YearsAgo(100) + now.tod => ~returned.flag
        /\ 2 * ParsedOrd > 2 * YearsAgo(2) + now.tod => ~returned.flag
        /\ ParsedOrd = YearsAgo(50) => returned.flag

\* what isBirthDate computes: true exactly for the dates more than 730 days and
\* less than 36500 days before the evaluation time
C15_BirthDateWindowInDays ==
    BirthTested =>
        (returned.flag <=> /\ 2 * ParsedOrd < 2 * (now.ord - 730) + now.tod
                           /\ 2 * ParsedOrd > 2 * (now.ord - 36500) + now.tod)

\* the parts of C15 about 100 and 50 years
C15_OldAndFiftyYears ==
    BirthTested =>
        /\ 2 * ParsedOrd < 2 * YearsAgo(100) + now.tod => ~returned.flag
        /\ ParsedOrd = YearsAgo(50) => returned.flag

Serialized(t, customerJson) ==
    toFlat(t, <<appendCustomer(t, Defaults0, customerJson).customer>>, <<>>, <<>>).printed

\* the record with the label oldName replaced by newName
Relabel(customerJson, oldName, newName) ==
    [i \in DOMAIN customerJson |->
        IF customerJson[i][1] = oldName THEN <<newName, customerJson[i][2]>> ELSE customerJson[i]]

\* the customer records that renameCustomerField's latest call is about: they
\* carry the old label, not the new one, and appendCustomer accepts them
Relabelled ==
    {c \in {Customers[i] : i \in DOMAIN Customers} :
        /\ lastRename.oldName \in KeySet(c)
        /\ lastRename.newName \notin KeySet(c)
        /\ appendCustomer(lastRename.before, Defaults0, c).ret}

\* C12: after renameCustomerField a record that supplies a value under the new
\* label is printed as the same record with the value under the old label was
\* before the rename: the same tag, the same block or inline, the same merges.
C12_RenameKeepsSerialization ==
    (lastRename.table = "writer" /\ lastRename.ret) =>
        \A c \in Relabelled :
            Serialized(w_tagMap, Relabel(c, lastRename.oldName, lastRename.newName))
                = Serialized(lastRename.before, c)

\* the same for the labels that neither self.blocks nor self.mergedFields names
C12_OutsideBlocksAndMerges ==
    (/\ lastRename.table = "writer" /\ lastRename.ret
     /\ lastRename.oldName \notin KeySet(blocks) \cup {"city", "province"})
    => \A c \in Relabelled :
            Serialized(w_tagMap, Relabel(c, lastRename.oldName, lastRename.newName))
                = Serialized(lastRename.before, c)

\* the fields mergeFields was told to merge, the target apart
OtherSources ==
    {mergeCall.mergeFields[i] : i \in DOMAIN mergeCall.mergeFields} \ {mergeCall.targetField}

\* the doctest's call: Lewis Hamilton, lastName and firstName into lastName with ', '
DoctestMerge ==
    /\ mergeCall.customer = << <<"firstName", <<"L","e","w","i","s">> >>,
                               <<"lastName", <<"H","a","m","i","l","t","o","n">> >> >>
    /\ mergeCall.targetField = "lastName"
    /\ mergeCall.mergeFields = <<"lastName", "firstName">>
    /\ mergeCall.delimiter = <<",", " ">>

\* C17: merging [lastName, firstName] into lastName with ', ' on {firstName:
\* Lewis, lastName: Hamilton} gives lastName = 'Hamilton, Lewis'; with purge
\* every source field other than the target is removed, without purge every
\* source field other than the target stays with its value.
C17_MergeExampleAndPurge ==
    merged.done =>
        /\ DoctestMerge =>
              Get(merged.customer, "lastName")
                = <<"H","a","m","i","l","t","o","n",",", " ","L","e","w","i","s">>
        /\ mergeCall.purgeFields => \A f \in OtherSources : f \notin KeySet(merged.customer)
        /\ ~mergeCall.purgeFields =>
              \A f \in OtherSources \cap KeySet(mergeCall.customer) :
                  Get(merged.customer, f) = Get(mergeCall.customer, f)

\* the doctest's call with purge leaves {'lastName': 'Hamilton, Lewis'}
C17_Witness ==
    /\ merged.done
    /\ DoctestMerge
    /\ mergeCall.purgeFields
    /\ merged.customer
         = << <<"lastName", <<"H","a","m","i","l","t","o","n",",", " ","L","e","w","i","s">> >> >>

\* the lines toFlat printed for its k-th customer: from the k-th document
\* boundary up to the next one
Segment(lines, k) ==
    LET at(n) == CHOOSE i \in DOMAIN lines :
                     /\ lines[i].kind = "boundary"
                     /\ Cardinality({j \in 1..i : lines[j].kind = "boundary"}) = n
        last == Cardinality({j \in DOMAIN lines : lines[j].kind = "boundary"})
    IN  SubSeq(lines, at(k), IF k = last THEN Len(lines) ELSE at(k + 1) - 1)

\* the tag of the block whose BEGIN and END lines enclose line i, or ""
Enclosing(seg, i) ==
    LET open == {j \in 1..(i - 1) : seg[j].kind = "begin"
                                    /\ \A m \in (j + 1)..(i - 1) : seg[m].kind # "end"}
    IN  IF open = {} \/ seg[i].kind # "field" THEN ""
        ELSE seg[CHOOSE j \in open : \A m \in open : m <= j].tag

\* the tag of the block a customer field belongs to, or "" for an inline field
BlockTag(key) ==
    IF key \notin KeySet(blocks) THEN ""
    ELSE IF Get(blocks, key) = "addr1" THEN "USER_ADDR1_" ELSE "USER_XINFO_"

\* a field of the customer has no Symphony tag under the table t
HasUnresolved(t, customer) == \E i \in DOMAIN customer : symphonyField(t, customer[i][1]) = None

\* seg holds the line of every field of the customer that has a tag, with the
\* field's value, inline or inside the block the field belongs to
EveryResolvablePrinted(t, customer, seg) ==
    \A i \in DOMAIN customer :
        symphonyField(t, customer[i][1]) # None =>
            \E n \in DOMAIN seg :
                /\ seg[n] = Line("field", symphonyField(t, customer[i][1]), customer[i][2])
                /\ Enclosing(seg, n) = BlockTag(customer[i][1])

\* C18: when toFlat prints a customer with a field whose tag cannot be
\* resolved, it prints one segment per customer and in it the line of every
\* other field of that customer, with the field's value, inline or in its block.
C18_UnresolvedFieldOnlyOmitted ==
    [][flats' = flats + 1 =>
         \A k \in DOMAIN customersJson :
             HasUnresolved(w_tagMap, customersJson[k]) =>
                 \E seg \in {Segment(printed', k)} :
                     EveryResolvablePrinted(w_tagMap, customersJson[k], seg)]_vars

\* the customer with the fields country and foo, for which no tag exists, was
\* printed: two errors were reported and the lines of its other fields are there
C18_Witness ==
    /\ flats = 1
    /\ w_tagMap = WriterTagMap0
    /\ Len(customersJson) = 1
    /\ {"country", "foo", "firstName", "citySlashState", "note"} \subseteq KeySet(customersJson[1])
    /\ reported = <<2>>
    /\ \E n \in DOMAIN printed :
           printed[n] = Line("field", "CITY/STATE", <<"E","d","m","o","n","t","o","n",",", " ","A","B">>)

\* the error events of the run so far: rejected records, invalid dates and
\* fields whose tag toFlat could not resolve
ErrorEvents == events.rejected + events.dates + events.tags

\* C19: a toFlat call adds to totalErrors exactly the number of unresolved-tag
\* fields it met, which is the sum of the per-record counts it reports, and the
\* count M of its summary line is the number of error events of the run, so 0
\* for a run without errors.
C19_SummaryCountsErrorEvents ==
    [][flats' = flats + 1 =>
         /\ totalErrors' = totalErrors + Sum(reported')
         /\ summary' = <<Len(customersJson), ErrorEvents'>>]_vars

\* what toFlat does count: one more than the unresolved fields on every call
C19_OneMorePerCall ==
    [][flats' = flats + 1 =>
         /\ totalErrors' = totalErrors + 1 + Sum(reported')
         /\ summary' = <<Len(customersJson), ErrorEvents' + flats'>>]_vars

\* a run without an error event whose summary counts an error
C19_ErrorFreeRunReportsOne ==
    /\ flats = 1
    /\ Len(customersJson) = 1
    /\ ErrorEvents = 0
    /\ summary = <<1, 1>>

\* the index of the first BEGIN line of a segment, or one past its end
FirstBegin(seg) ==
    IF \E i \in DOMAIN seg : seg[i].kind = "begin"
    THEN CHOOSE i \in DOMAIN seg :
             seg[i].kind = "begin" /\ \A j \in 1..(i - 1) : seg[j].kind # "begin"
    ELSE Len(seg) + 1

\* the inline lines of a customer: its fields outside the blocks whose tag
\* resolves, in the order of the record
InlineLines(t, customer) ==
    LET inline == SelectSeq(customer, LAMBDA e : /\ e[1] \notin KeySet(blocks)
                                                 /\ symphonyField(t, e[1]) # None)
    IN  [i \in DOMAIN inline |-> Line("field", symphonyField(t, inline[i][1]), inline[i][2])]

\* from line b on the segment is a row of sections: a BEGIN line, field lines
\* of members of that block, the END line of the same block
Bracketed(t, seg, b) ==
    \A i \in b..Len(seg) :
        /\ seg[i].kind \in {"begin", "field", "end"}
        /\ seg[i].kind = "begin" =>
               \E j \in (i + 1)..Len(seg) :
                   /\ seg[j] = Line("end", seg[i].tag, <<>>)
                   /\ \A m \in (i + 1)..(j - 1) : seg[m].kind = "field"
        /\ seg[i].kind = "end" =>
               \E j \in b..(i - 1) :
                   /\ seg[j] = Line("begin", seg[i].tag, <<>>)
                   /\ \A m \in (j + 1)..(i - 1) : seg[m].kind = "field"
        /\ seg[i].kind = "field" =>
               /\ Enclosing(seg, i) # ""
               /\ \E key \in KeySet(blocks) :
                      /\ BlockTag(key) = Enclosing(seg, i)
                      /\ symphonyField(t, key) = seg[i].tag

\* the lines of one customer are in the order the format asks for
InOrder(t, customer, seg) ==
    /\ Len(seg) >= 2
    /\ seg[1] = Line("boundary", "", <<>>)
    /\ seg[2] = Line("form", "", <<>>)
    /\ \E b \in {FirstBegin(seg)} :
           /\ SubSeq(seg, 3, b - 1) = InlineLines(t, customer)
           /\ Bracketed(t, seg, b)

\* the number of document-boundary lines
Boundaries(lines) == Cardinality({i \in DOMAIN lines : lines[i].kind = "boundary"})

\* C20: toFlat prints one segment per customer, and in it the document
\* boundary, the form line, the inline field lines in the order of the record's
\* fields, then the bracketed sections: no inline line after the first BEGIN,
\* every BEGIN closed by the END of the same block before another BEGIN, and
\* between them only lines of fields that are members of that block.
C20_LinesInOrder ==
    [][flats' = flats + 1 =>
         /\ Boundaries(printed') = Len(customersJson)
         /\ \A k \in DOMAIN customersJson :
                \E seg \in {Segment(printed', k)} : InOrder(w_tagMap, customersJson[k], seg)]_vars

\* a customer with inline fields, an address field and a note was printed: its
\* segment has inline lines and both bracketed sections
C20_Witness ==
    /\ flats >= 1
    /\ Len(customersJson) = 2
    /\ Boundaries(printed) = 2
    /\ {"firstName", "email", "note"} \subseteq KeySet(customersJson[2])
    /\ \E seg \in {Segment(printed, 2)} :
           /\ FirstBegin(seg) > 3
           /\ \E i, j \in DOMAIN seg :
                  /\ i < j
                  /\ seg[i] = Line("end", "USER_ADDR1_", <<>>)
                  /\ seg[j] = Line("begin", "USER_XINFO_", <<>>)

\* the lines a segment holds between the BEGIN and the END of the block tag
SectionLines(seg, tag) == {seg[i] : i \in {n \in DOMAIN seg : Enclosing(seg, n) = tag}}

\* the lines of the customer's own fields that are members of the block tag
OwnLines(t, customer, tag) ==
    {Line("field", symphonyField(t, customer[i][1]), customer[i][2]) :
        i \in {n \in DOMAIN customer : /\ BlockTag(customer[n][1]) = tag
                                        /\ symphonyField(t, customer[n][1]) # None}}

\* the sections of a segment hold the customer's own block fields and nothing
\* else, and a block the customer has no field in has no markers
OwnSections(t, customer, seg) ==
    \A tag \in {"USER_ADDR1_", "USER_XINFO_"} :
        /\ SectionLines(seg, tag) = OwnLines(t, customer, tag)
        /\ (\A n \in DOMAIN customer : BlockTag(customer[n][1]) # tag) =>
               \A i \in DOMAIN seg : seg[i] # Line("begin", tag, <<>>)

\* C21: in a run of several customers, and on a repeated toFlat call, every
\* bracketed section printed for a customer holds exactly the block-member
\* fields of that customer's own stored record with that customer's values, and
\* no BEGIN or END line is printed for a block the record has no field in.
C21_SectionsHoldOwnFieldsOnly ==
    [][flats' = flats + 1 =>
         \A k \in DOMAIN customersJson :
             \E seg \in {Segment(printed', k)} :
                 OwnSections(w_tagMap, customersJson[k], seg)]_vars

\* the same for the first customer of the first toFlat call
C21_FirstCustomerFirstCall ==
    [][(flats = 0 /\ flats' = 1 /\ customersJson # <<>>) =>
         \E seg \in {Segment(printed', 1)} :
             OwnSections(w_tagMap, customersJson[1], seg)]_vars

\* a customer without an address field printed after one with an e-mail
\* address: its segment has an address section with the other's e-mail
C21_StaleAddress ==
    /\ flats = 1
    /\ Len(customersJson) = 2
    /\ "email" \in KeySet(customersJson[1])
    /\ \A n \in DOMAIN customersJson[2] : BlockTag(customersJson[2][n][1]) # "USER_ADDR1_"
    /\ \E seg \in {Segment(printed, 2)} :
           Line("field", "EMAIL", Get(customersJson[1], "email")) \in SectionLines(seg, "USER_ADDR1_")

\* the labels of the two date fields under the table t
DateLabelSet(t) == {dateLabels(t)[i] : i \in DOMAIN dateLabels(t)}

\* the date labels the record does not supply
AbsentDates(t, customerJson) == DateLabelSet(t) \ KeySet(customerJson)

\* the date labels the record supplies with a value getAnsiDate does not convert
InvalidDates(t, customerJson) ==
    {l \in DateLabelSet(t) \cap KeySet(customerJson) :
        getAnsiDate(t, l, Get(customerJson, l)).date = NoneStr}

\* the lines toFlat prints for the field label of the one record stored
LinesOf(t, stored, label) ==
    {n \in DOMAIN toFlat(t, <<stored>>, <<>>, <<>>).printed :
        /\ toFlat(t, <<stored>>, <<>>, <<>>).printed[n].kind = "field"
        /\ toFlat(t, <<stored>>, <<>>, <<>>).printed[n].tag = symphonyField(t, label)}

\* C22: appendCustomer on a record with at least minimumFields fields and no
\* birthday or no expiry field does not raise, returns True, stores the
\* record, counts no error for the absent date (only the errors of the dates
\* that are there and invalid), and the record stored has no field and no
\* output line for the absent date.
C22_AbsentDateIsNoError ==
    [][(/\ appends' = appends + 1
        /\ Len(lastAppend'.customerJson) >= minimumFields
        /\ AbsentDates(w_tagMap, lastAppend'.customerJson) # {})
       => /\ ~lastAppend'.raised
          /\ lastAppend'.ret
          /\ Len(customersJson') = Len(customersJson) + 1
          /\ lastAppend'.errors = Cardinality(InvalidDates(w_tagMap, lastAppend'.customerJson))
          /\ \A l \in AbsentDates(w_tagMap, lastAppend'.customerJson) :
                 /\ l \notin KeySet(customersJson'[Len(customersJson')])
                 /\ LinesOf(w_tagMap, customersJson'[Len(customersJson')], l) = {}]_vars

\* what the code does with such a record: KeyError, and nothing is stored
C22_AbsentDateRaises ==
    [][(/\ appends' = appends + 1
        /\ Len(lastAppend'.customerJson) >= minimumFields
        /\ AbsentDates(w_tagMap, lastAppend'.customerJson) # {})
       => /\ lastAppend'.raised
          /\ customersJson' = customersJson]_vars

\* the doctest's customer without its expiry field was handed to appendCustomer
C22_NoExpiryRaised ==
    /\ appends = 1
    /\ w_tagMap = WriterTagMap0
    /\ KeySet(lastAppend.customerJson) = {"firstName", "lastName", "birthday"}
    /\ lastAppend.raised
    /\ customersJson = <<>>

\* the calendar date a value decodes to under the ordering it matches, a
\* record with valid = FALSE if it matches none or is no calendar date
Decoded(value) ==
    IF dateOrder(value) = None THEN [valid |-> FALSE]
    ELSE strptime(Take(Remove(value, {"/", "-"}), 8), dateOrder(value))

\* the value is the no-expiry token, given for the label bound to the expiry
NoExpiryToken(t, label, value) ==
    value = NEVER /\ \E i \in DOMAIN t : t[i] = <<label, "userPrivExpires">>

\* the names the configured merges read or write
MergeNames ==
    UNION {{mergedFields[i][1]} \cup {mergedFields[i][2][j] : j \in DOMAIN mergedFields[i][2]} :
              i \in DOMAIN mergedFields}

\* what appendCustomer has to do with the date fields of customerJson, stored
\* being the record it appended and errors the errors it counted
DatesHandled(t, customerJson, stored, errors, exempt) ==
    /\ \A l \in (DateLabelSet(t) \cap KeySet(customerJson)) \ exempt :
           \E v \in {Get(customerJson, l)} :
               \/ NoExpiryToken(t, l, v)
               \/ /\ Decoded(v).valid
                  /\ Get(stored, l) = yyyymmdd(Decoded(v))
               \/ /\ ~Decoded(v).valid
                  /\ l \notin KeySet(stored)
                  /\ LinesOf(t, stored, l) = {}
    /\ errors = Cardinality({l \in DateLabelSet(t) \cap KeySet(customerJson) :
                                /\ ~NoExpiryToken(t, l, Get(customerJson, l))
                                /\ ~Decoded(Get(customerJson, l)).valid
                                /\ l \notin exempt})
    /\ \A n \in DOMAIN customerJson :
           customerJson[n][1] \notin DateLabelSet(t) \cup MergeNames =>
               Get(stored, customerJson[n][1]) = customerJson[n][2]

\* appendCustomer was called with a record that has enough fields and both dates
DatesSupplied ==
    /\ appends' = appends + 1
    /\ Len(lastAppend'.customerJson) >= minimumFields
    /\ AbsentDates(w_tagMap, lastAppend'.customerJson) = {}

\* C23: a birthday or expiry value that matches no accepted ordering or is no
\* calendar date is removed from the record and has no output line, counts one
\* error, appendCustomer still returns True, every other field keeps its
\* value, and a valid date is replaced by its yyyymmdd form.
C23_InvalidDateDropped ==
    [][DatesSupplied =>
         /\ lastAppend'.ret
         /\ Len(customersJson') = Len(customersJson) + 1
         /\ DatesHandled(w_tagMap, lastAppend'.customerJson, customersJson'[Len(customersJson')],
                         lastAppend'.errors, {})]_vars

\* the date values that become NEVER once '/' and '-' are removed and are
\* given for the expiry
NeverOnceTrimmed(t, customerJson) ==
    {l \in DateLabelSet(t) \cap KeySet(customerJson) :
        /\ Get(customerJson, l) # NEVER
        /\ NoExpiryToken(t, l, Take(Remove(Get(customerJson, l), {"/", "-"}), 8))}

\* C23 as the code keeps it: the same, the expiry values apart that are NEVER
\* once their separators are removed
C23_InvalidDateDroppedUnlessNeverLike ==
    [][DatesSupplied =>
         /\ lastAppend'.ret
         /\ Len(customersJson') = Len(customersJson) + 1
         /\ DatesHandled(w_tagMap, lastAppend'.customerJson, customersJson'[Len(customersJson')],
                         lastAppend'.errors,
                         NeverOnceTrimmed(w_tagMap, lastAppend'.customerJson))]_vars

\* the record with the expiry 2021-02-30 was appended: the expiry is gone, one
\* error was counted, the birthday 22081999 became 19990822
C23_ImpossibleExpiryDropped ==
    /\ appends = 1
    /\ lastAppend.ret
    /\ Get(lastAppend.customerJson, "expiry") = <<"2","0","2","1","-","0","2","-","3","0">>
    /\ lastAppend.errors = 1
    /\ Len(customersJson) = 1
    /\ "expiry" \notin KeySet(customersJson[1])
    /\ Get(customersJson[1], "birthday") = <<"1","9","9","9","0","8","2","2">>

\* the record stored holds NEVER under the label and toFlat prints it
StoredAsNever(t, stored, l) ==
    /\ l \in KeySet(stored)
    /\ Get(stored, l) = NEVER
    /\ \E n \in DOMAIN toFlat(t, <<stored>>, <<>>, <<>>).printed :
           toFlat(t, <<stored>>, <<>>, <<>>).printed[n] = Line("field", symphonyField(t, l), NEVER)

\* C25: appendCustomer keeps NEVER, and toFlat prints it, exactly for a date
\* field whose value is the literal NEVER and whose label is the one bound to
\* the expiry tag, whatever that label is after a rename; NEVER as birthday is
\* dropped; no other value is taken for the no-expiry token.
C25_OnlyLiteralNeverForExpiry ==
    [][DatesSupplied =>
         \E stored \in {customersJson'[Len(customersJson')]} :
             \A l \in DateLabelSet(w_tagMap) :
                 /\ StoredAsNever(w_tagMap, stored, l) <=>
                        NoExpiryToken(w_tagMap, l, Get(lastAppend'.customerJson, l))
                 /\ (/\ Get(lastAppend'.customerJson, l) = NEVER
                     /\ ~NoExpiryToken(w_tagMap, l, NEVER)) => l \notin KeySet(stored)]_vars

\* what the code accepts: every expiry value that is NEVER once '/' and '-' are
\* removed and the first 8 characters are taken
C25_NeverAfterTrimming ==
    [][DatesSupplied =>
         \E stored \in {customersJson'[Len(customersJson')]} :
             \A l \in DateLabelSet(w_tagMap) :
                 StoredAsNever(w_tagMap, stored, l) <=>
                     NoExpiryToken(w_tagMap, l,
                                   Take(Remove(Get(lastAppend'.customerJson, l), {"/", "-"}), 8))]_vars

\* the expiry NEV-ER was stored as NEVER without an error
C25_NeverWithSeparatorAccepted ==
    /\ appends = 1
    /\ lastAppend.ret
    /\ Get(lastAppend.customerJson, "expiry") = <<"N","E","V","-","E","R">>
    /\ lastAppend.errors = 0
    /\ Get(customersJson[1], "expiry") = NEVER

\* NEVER under the renamed expiry label was stored
C25_RenamedExpiryNever ==
    /\ lastAppend.ret
    /\ w_tagMap # WriterTagMap0
    /\ "expires" \in KeySet(lastAppend.customerJson)
    /\ Len(customersJson) = 1
    /\ "birthday" \in KeySet(customersJson[1])
    /\ "expires" \in KeySet(customersJson[1])
    /\ Get(customersJson[1], "expires") = NEVER

\* the label a configuration gives to a canonical field name
LabelOf(cfg, name) ==
    IF Has(cfg, "fieldBindings") /\ name \in KeySet(cfg.fieldBindings)
    THEN Get(cfg.fieldBindings, name)
    ELSE name

\* a corpus-based field has no corpus entry, or its entry names no file
CorpusMissing(cfg) ==
    \E k \in DOMAIN corpusNames :
        \/ ~Has(cfg, "corpus")
        \/ LabelOf(cfg, corpusNames[k]) \notin KeySet(cfg.corpus)
        \/ Get(cfg.corpus, LabelOf(cfg, corpusNames[k])) \notin DOMAIN Files

\* the configurations the constructor has to reject
Rejected(cfg) ==
    \/ cfg.isNone
    \/ cfg.keys = {}
    \/ ~Has(cfg, "required")
    \/ CorpusMissing(cfg)

\* C24: constructing a TextParser with no configuration, an empty one, one
\* without 'required', or one in which a corpus-based field has no corpus
\* entry or names a file that does not exist raises the configuration error
\* (ValueError) before a record is read: no record is counted, and the column
\* assignment and the histogram are empty.
C24_BadConfigurationRaisesFirst ==
    (pc # "new" /\ Rejected(configs)) =>
        /\ pc = "raised"
        /\ exc = ValueError
        /\ total_records = 0
        /\ calls = 0
        /\ cols = <<>>
        /\ fields_collected = EmptyDict
        /\ fields_histogram = EmptyDict

\* the constructor was given a configuration whose street corpus is a file
\* that does not exist, and raised
C24_Witness ==
    /\ pc = "raised"
    /\ exc = ValueError
    /\ Has(configs, "required")
    /\ Has(configs, "corpus")
    /\ Get(configs.corpus, "street") = "missing.txt"
    /\ total_records = 0

\* the system field a customer label stands for (flat.py 592-596)
SystemField(t, key) == IF Get(t, key) = None THEN key ELSE Get(t, key)

\* the system fields the record supplies a value for
SuppliedFields(t, customerJson) == {SystemField(t, customerJson[n][1]) : n \in DOMAIN customerJson}

\* the values the printed lines hold for the system field f
PrintedFor(lines, f) ==
    {lines[n].value : n \in {m \in DOMAIN lines : /\ lines[m].kind = "field"
                                                  /\ lines[m].tag = Get(symphonyTags, f)}}

\* the defaults d were applied to customerJson, stored being the record kept
\* and lines what toFlat prints for it: a default is added for the fields in
\* absent and for no other
DefaultsApplied(d, customerJson, stored, lines, absent) ==
    /\ \A n \in DOMAIN customerJson :
           customerJson[n][1] \in KeySet(d) => Get(stored, customerJson[n][1]) = customerJson[n][2]
    /\ \A i \in DOMAIN d :
           IF d[i][1] \in absent
           THEN /\ d[i][1] \in KeySet(stored)
                /\ Get(stored, d[i][1]) = d[i][2]
                /\ d[i][2] \in PrintedFor(lines, d[i][1])
           ELSE /\ d[i][1] \notin KeySet(customerJson) => d[i][1] \notin KeySet(stored)
                /\ d[i][2] \notin PrintedFor(lines, d[i][1])

\* setDefaultSymphonyValue changes the defaults only for a known field name
\* with a value, and then only that field
DefaultSet ==
    /\ lastDefault'.ret <=> (/\ lastDefault'.fieldName \in KeySet(symphonyTags)
                             /\ lastDefault'.newValue # <<>>)
    /\ lastDefault'.ret => Get(w_defaults', lastDefault'.fieldName) = lastDefault'.newValue
    /\ ~lastDefault'.ret => w_defaults' = w_defaults
    /\ \A f \in KeySet(w_defaults') \ {lastDefault'.fieldName} :
           f \in KeySet(w_defaults) /\ Get(w_defaults', f) = Get(w_defaults, f)

\* C26: appendCustomer adds a default exactly for the system fields the
\* customer supplies no value for: a supplied value is never replaced by a
\* default, and every other default is stored and printed with the value
\* configured at the call, one set by setDefaultSymphonyValue included; and
\* setDefaultSymphonyValue accepts known field names only and otherwise leaves
\* the defaults as they are.
C26_DefaultsOnlyForAbsentFields ==
    [][/\ (appends' = appends + 1 /\ lastAppend'.ret) =>
              \E stored \in {customersJson'[Len(customersJson')]} :
                  \E lines \in {toFlat(w_tagMap, <<stored>>, <<>>, <<>>).printed} :
                      DefaultsApplied(w_defaults, lastAppend'.customerJson, stored, lines,
                                      KeySet(w_defaults)
                                        \ SuppliedFields(w_tagMap, lastAppend'.customerJson))
       /\ (appends' = appends) /\ (flats' = flats) => DefaultSet]_vars

\* what the code does: a default is added for every default name that is not
\* a key of the record, whatever system field the record's labels stand for
C26_DefaultsForAbsentKeys ==
    [][/\ (appends' = appends + 1 /\ lastAppend'.ret) =>
              \E stored \in {customersJson'[Len(customersJson')]} :
                  \E lines \in {toFlat(w_tagMap, <<stored>>, <<>>, <<>>).printed} :
                      DefaultsApplied(w_defaults, lastAppend'.customerJson, stored, lines,
                                      KeySet(w_defaults) \ KeySet(lastAppend'.customerJson))
       /\ (appends' = appends) /\ (flats' = flats) => DefaultSet]_vars

\* the library default EPLMNA was added to a record that supplies the library
\* EPLWMC under the label branch
C26_LibraryTwice ==
    /\ appends = 1
    /\ lastAppend.ret
    /\ "branch" \in KeySet(lastAppend.customerJson)
    /\ Len(customersJson) = 1
    /\ {"branch", "userLibrary"} \subseteq KeySet(customersJson[1])
    /\ Get(customersJson[1], "userLibrary") = <<"E","P","L","M","N","A">>
    /\ Get(customersJson[1], "branch") = <<"E","P","L","W","M","C">>

\* the orderings whose pattern matches the string
MatchingOrders(test_date) ==
    {o \in {"mdY", "dmY", "Ymd"} :
        ReMatch(CASE o = "mdY" -> reg_mmddyyyy [] o = "dmY" -> reg_ddmmyyyy [] o = "Ymd" -> reg_yyyymmdd,
                test_date)}

\* C27: at most one of the three date-ordering patterns matches the string
\* getDate or getAnsiDate was called with, so the ordering used to decode it
\* is the same whatever the order in which the patterns are tested.
C27_PatternsExclusive ==
    called \in {"getDate", "getAnsiDate"} => Cardinality(MatchingOrders(some_date)) <= 1

\* the pair that overlaps is month-day-year and day-month-year; year-month-day
\* shares no string with either
C27_OnlyYmdExclusive ==
    called \in {"getDate", "getAnsiDate"} =>
        /\ MatchingOrders(some_date) \in {{}, {"mdY"}, {"dmY"}, {"Ymd"}, {"mdY", "dmY"}}
        /\ MatchingOrders(some_date) = {"mdY", "dmY"} => dateOrder(some_date) = "mdY"

\* getDate read 2 March 2019, written day first, as 3 February 2019
C27_DayFirstReadMonthFirst ==
    /\ called = "getDate"
    /\ written.order = "dmY"
    /\ written.day = <<2019, 3, 2>>
    /\ MatchingOrders(some_date) = {"mdY", "dmY"}
    /\ returned.date = <<"2","0","1","9","0","2","0","3">>


\* the values mergeFields is to join: for each entry of the source list, in
\* the list's order, the value the record has for it, when it has one that
\* is not empty
SourceValues(customer, fields) ==
    LET present == SelectSeq(fields, LAMBDA f : f \in KeySet(customer) /\ Get(customer, f) # <<>>)
    IN [i \in 1..Len(present) |-> Get(customer, present[i])]

\* the names of the source list
ListedSources == {mergeCall.mergeFields[i] : i \in DOMAIN mergeCall.mergeFields}

\* no name is listed twice in the source list
ListedOnce ==
    \A i, j \in DOMAIN mergeCall.mergeFields :
        mergeCall.mergeFields[i] = mergeCall.mergeFields[j] => i = j

\* the entries of the source list that find their field in the record when
\* the loop visits them: with purgeFields the first visit of a name removes
\* the field, so a later entry of the same name finds nothing
Visited ==
    {i \in DOMAIN mergeCall.mergeFields :
        /\ mergeCall.mergeFields[i] \in KeySet(mergeCall.customer)
        /\ mergeCall.purgeFields =>
              \A j \in 1..(i - 1) : mergeCall.mergeFields[j] # mergeCall.mergeFields[i]}

RECURSIVE VisitedValues(_)
\* the non-empty values of the visited entries from entry i on, in list order
VisitedValues(i) ==
    IF i > Len(mergeCall.mergeFields) THEN <<>>
    ELSE IF i \in Visited /\ Get(mergeCall.customer, mergeCall.mergeFields[i]) # <<>>
    THEN <<Get(mergeCall.customer, mergeCall.mergeFields[i])>> \o VisitedValues(i + 1)
    ELSE VisitedValues(i + 1)

\* one call of mergeFields joined the values vals into the target and left
\* the fields that are neither target nor source alone
MergedAs(vals) ==
        /\ vals # <<>> =>
              /\ mergeCall.targetField \in KeySet(merged.customer)
              /\ Get(merged.customer, mergeCall.targetField) = Join(vals, mergeCall.delimiter)
        /\ vals = <<>> =>
              (mergeCall.targetField \in KeySet(merged.customer)
                  => mergeCall.targetField \in KeySet(mergeCall.customer))
        /\ \A f \in KeySet(mergeCall.customer) \ (ListedSources \cup {mergeCall.targetField}) :
              /\ f \in KeySet(merged.customer)
              /\ Get(merged.customer, f) = Get(mergeCall.customer, f)

\* what C28 says of one call of mergeFields
MergedAsListed == MergedAs(SourceValues(mergeCall.customer, mergeCall.mergeFields))

\* C28: mergeFields sets the target to the non-empty values of the listed
\* source fields the record has, joined by the delimiter in the order of the
\* source list; absent and empty sources contribute nothing; when nothing is
\* contributed the target is not created; every field that is neither the
\* target nor a listed source keeps its value.
C28_TargetIsListedValuesJoined == merged.done => MergedAsListed

\* C28 (amended): the target is set to the non-empty values the entries of
\* the source list find in the record, joined in list order, where with
\* purgeFields a name listed again finds nothing; for a list that names no
\* field twice these are the values C28 names.
C28_JoinedAsVisited ==
    merged.done =>
        /\ MergedAs(VisitedValues(1))
        /\ ListedOnce => MergedAsListed

\* Hamilton, Leslie and Lewis joined in the list's order, not the record's
C28_Witness ==
    /\ merged.done
    /\ mergeCall.mergeFields = <<"lastName", "middleName", "firstName">>
    /\ mergeCall.targetField = "name"
    /\ mergeCall.delimiter = <<"|">>
    /\ Len(mergeCall.customer) = 3
    /\ Get(merged.customer, "name")
          = <<"H","a","m","i","l","t","o","n","|","L","e","s","l","i","e","|","L","e","w","i","s">>

\* an empty first name is not joined: the target is 'Hamilton' alone
C28_EmptySkipped ==
    /\ merged.done
    /\ mergeCall.mergeFields = <<"lastName", "firstName">>
    /\ mergeCall.targetField = "name"
    /\ Get(mergeCall.customer, "firstName") = <<>>
    /\ Get(merged.customer, "name") = <<"H","a","m","i","l","t","o","n">>

\* a field listed twice is joined twice when the merged fields are kept
C28_ListedTwiceKept ==
    /\ merged.done
    /\ ~mergeCall.purgeFields
    /\ mergeCall.mergeFields = <<"firstName", "firstName">>
    /\ mergeCall.targetField = "name"
    /\ mergeCall.delimiter = <<",", " ">>
    /\ "name" \in KeySet(merged.customer)
    /\ Get(merged.customer, "name") = <<"L","e","w","i","s",","," ","L","e","w","i","s">>

\* and once when they are purged
C28_ListedTwicePurged ==
    /\ merged.done
    /\ mergeCall.purgeFields
    /\ mergeCall.mergeFields = <<"firstName", "firstName">>
    /\ mergeCall.targetField = "name"
    /\ Len(mergeCall.customer) = 2
    /\ "name" \in KeySet(merged.customer)
    /\ Get(merged.customer, "name") = <<"L","e","w","i","s">>


\* the assignment and the histogram have the same keys, all of them requested
\* fields, and no field was counted more often than records were handled
KeysAndCounts ==
    /\ DOMAIN fields_collected = DOMAIN fields_histogram
    /\ DOMAIN fields_collected \subseteq RequestedSet
    /\ \A field \in DOMAIN fields_histogram :
           1 <= fields_histogram[field] /\ fields_histogram[field] <= calls

\* C29: after any sequence of processed records every assigned value is a
\* column index from 0 of the record that confirmed it, the assignment and the
\* histogram have the same keys, all requested fields, and every count is
\* between 1 and the number of records processed.
C29_AssignedIndicesAndCounts ==
    Handled =>
        /\ \A field \in DOMAIN fields_collected :
               /\ fields_collected[field] >= 0
               /\ DetectedNow(field) => fields_collected[field] < Len(cols)
        /\ KeysAndCounts

\* the same but for the date fields, which are assigned -1 and counted by a
\* record that holds no such date
C29_IndicesButForDateFields ==
    Handled =>
        /\ \A field \in DOMAIN fields_collected :
               /\ fields_collected[field] >= -1
               /\ fields_collected[field] = -1 => KindOf(field) = "date"
               /\ (DetectedNow(field) /\ fields_collected[field] = -1)
                      => Candidates(field) = {}
               /\ DetectedNow(field) => fields_collected[field] < Len(cols)
        /\ KeysAndCounts

\* a record without a date has been counted for a requested date field
C29_DateAssignedMinusOne ==
    /\ Handled
    /\ \E field \in DOMAIN fields_collected :
           /\ fields_collected[field] = -1
           /\ DetectedNow(field)
           /\ fields_histogram[field] = calls


\* the index the assignment held for field g at the moment the i-th
\* requested field was looked for in the last record
AtDetection(i, g) ==
    IF \E j \in 1..(i - 1) : requested_fields[j][1] = g /\ DetectedNow(g)
    THEN fields_collected[g]
    ELSE before.collected[g]

\* the fields the assignment held at the moment the i-th requested field
\* was looked for in the last record
AssignedAtDetection(i) ==
    DOMAIN before.collected
        \cup {requested_fields[j][1] : j \in {k \in 1..(i - 1) : DetectedNow(requested_fields[k][1])}}

\* C30: only the corpus strategies skip a claimed column: a pattern or date
\* field is assigned the first column that satisfies its heuristic whatever
\* the assignment holds, while a corpus field is never assigned an index the
\* assignment maps to another field at the moment of its detection.
C30_OnlyCorpusSkipsClaimed ==
    Handled =>
        \A i \in DOMAIN requested_fields :
            LET field == requested_fields[i][1]
            IN  /\ (KindOf(field) \in {"pattern", "date"} /\ Candidates(field) # {})
                      => /\ DetectedNow(field)
                         /\ fields_collected[field] = Min(Candidates(field)) - 1
                /\ (KindOf(field) = "corpus" /\ DetectedNow(field))
                      => \A g \in AssignedAtDetection(i) \ {field} :
                             AtDetection(i, g) # fields_collected[field]

\* one record gave userId and birthday the same column: 19990822,Harold
C30_Witness ==
    /\ Handled
    /\ cols = DatedRow
    /\ DetectedNow("userId") /\ DetectedNow("birthday") /\ DetectedNow("firstName")
    /\ fields_collected["userId"] = 0
    /\ fields_collected["birthday"] = 0
    /\ fields_collected["firstName"] = 1

====
